---- MODULE Spec2Model ----
(***************************************************************************)
(* The Star Battle solving core, UltimateStarBattleSolver of               *)
(* RedditBruteForce.py: constraint propagation to a fixpoint, memoised     *)
(* combination generation and the backtracking search, as a state machine. *)
(* Cells are <<r, c>> with r, c in 1..dim (the code counts from 0; every   *)
(* rule of the solver is invariant under that shift).  A board and a       *)
(* region grid are tuples of rows, as the code's lists of lists.           *)
(* With it, the HistoryManager of the players (history_manager.py): the    *)
(* undo/redo history of a grid and its serialization.                      *)
(***************************************************************************)
EXTENDS Integers, Sequences, FiniteSets, TLC

VARIABLES
    region_grid,        \* self.region_grid
    dim,                \* self.dim
    stars_per_region,   \* self.stars_per_region
    regions,            \* self.regions, in insertion order: <<[id, cells]>>
    solutions,          \* self.solutions
    stats,              \* self.stats
    cache,              \* the lru_cache of _get_internally_valid_combos
    hash_order,         \* iteration order of a frozenset of cells in this process
    call,               \* the _backtrack invocation about to run, or NoCall
    stack,              \* the active _backtrack frames inside their combo loop
    pc,                 \* where the caller of the solver object is
    solveCalls,         \* solve() calls made on this solver object
    returned,           \* what each solve() call on this object returned
    initial_state,      \* HistoryManager: self.initial_state
    changes,            \* HistoryManager: self.changes
    pointer,            \* HistoryManager: self.pointer
    redo_dropped,       \* the last call on the manager was an add_change that
                        \* dropped undone changes
    cell_board,         \* StarBattleSolver: self.board
    row_counts,         \* StarBattleSolver: self.row_counts
    col_counts,         \* StarBattleSolver: self.col_counts
    region_counts,      \* StarBattleSolver: self.region_counts
    frames,             \* StarBattleSolver: the active _backtrack(r, c) calls
    board_refs,         \* StarBattleSolver: the places in self.solutions that
                        \* hold the object self.board itself, not a copy
    sbn_input,          \* SBN: the region grid and star count to encode
    sbn_string,         \* SBN: what encode_to_sbn returned, and which tool's
    decoded             \* SBN: what each tool's decode_sbn returned

solver_vars == <<region_grid, dim, stars_per_region, regions, solutions, stats,
                 cache, hash_order, call, stack, pc, solveCalls, returned>>

history_vars == <<initial_state, changes, pointer, redo_dropped>>

\* a StarBattleSolver object keeps its region_grid, dim, stars_per_region,
\* regions and solutions in the variables of these names
cell_vars == <<cell_board, row_counts, col_counts, region_counts, frames, board_refs>>

sbn_vars == <<sbn_input, sbn_string, decoded>>

vars == <<solver_vars, history_vars, cell_vars, sbn_vars>>

\* ------------------------------------------------------------------ bounds
MaxSolveCalls == 2
MaxStars == 2
\* the longest history, and the length up to which any cell may be changed
MaxHistory == 65
MaxFree == 2

\* --------------------------------------------------------------- constants
EMPTY == 0
STAR == 1
ELIMINATED == -1
max_solutions == 2

\* ----------------------------------------------------------------- helpers
Max(a, b) == IF a >= b THEN a ELSE b
Min(a, b) == IF a <= b THEN a ELSE b
Abs(a) == IF a >= 0 THEN a ELSE -a
Range(s) == {s[i] : i \in DOMAIN s}
Reverse(s) == [i \in 1..Len(s) |-> s[Len(s) + 1 - i]]

\* range(dim) x range(dim) in row-major order
AllCells(n) == [i \in 1..(n * n) |-> <<((i - 1) \div n) + 1, ((i - 1) % n) + 1>>]

At(board, cell) == board[cell[1]][cell[2]]
SetCell(board, cell, v) == [board EXCEPT ![cell[1]][cell[2]] = v]
CountIn(board, cells, v) == Len(SelectSeq(cells, LAMBDA x : At(board, x) = v))
CellsWith(board, cells, v) == SelectSeq(cells, LAMBDA x : At(board, x) = v)

\* the iteration order of a frozenset of region ids (small ints hash to themselves)
RECURSIVE SortedIds(_)
SortedIds(S) ==
    IF S = {} THEN <<>>
    ELSE LET m == CHOOSE x \in S : \A y \in S : x <= y
         IN  <<m>> \o SortedIds(S \ {m})

\* the iteration order of a frozenset of cells: fixed by the tuples' hashes, so one
\* of the orders the process may have
CellBefore(x, y) == x[1] < y[1] \/ (x[1] = y[1] /\ x[2] <= y[2])

RECURSIVE SortedCells(_)
SortedCells(S) ==
    IF S = {} THEN <<>>
    ELSE LET m == CHOOSE x \in S : \A y \in S : CellBefore(x, y)
         IN  <<m>> \o SortedCells(S \ {m})

SetToSeq(S, order) ==
    IF order = "ascending" THEN SortedCells(S) ELSE Reverse(SortedCells(S))

\* ------------------------------------------------------------- __init__
\* where the scan of lines 161-163 first meets a region id
FirstSeenAt(grid, cells, id) ==
    CHOOSE i \in 1..Len(cells) :
        /\ At(grid, cells[i]) = id
        /\ \A j \in 1..(i - 1) : At(grid, cells[j]) # id

\* self.regions: region id -> its cells in scan order, keys in first-seen order
BuildRegions(grid, n) ==
    LET cells == AllCells(n)
        ids == {At(grid, cells[i]) : i \in 1..Len(cells)}
        first == [id \in ids |-> FirstSeenAt(grid, cells, id)]
        keys == [i \in 1..Cardinality(ids) |->
                    CHOOSE id \in ids :
                        Cardinality({o \in ids : first[o] < first[id]}) = i - 1]
    IN  [i \in 1..Len(keys) |->
            [id |-> keys[i],
             cells |-> SelectSeq(cells, LAMBDA x : At(grid, x) = keys[i])]]

\* region_grid[r][c] for r, c in range(dim) raises IndexError on a short row
InitRaises(grid) == \E r \in 1..Len(grid) : Len(grid[r]) < Len(grid)

RegionIds(regs) == {regs[i].id : i \in 1..Len(regs)}
RegionCells(regs, id) == regs[CHOOSE i \in 1..Len(regs) : regs[i].id = id].cells

\* ------------------------------------------- _get_internally_valid_combos
RECURSIVE Combinations(_, _)
Combinations(s, n) ==
    IF n = 0 THEN << <<>> >>
    ELSE IF Len(s) < n THEN <<>>
    ELSE LET rest == Combinations(Tail(s), n - 1)
         IN  [i \in 1..Len(rest) |-> <<Head(s)>> \o rest[i]]
             \o Combinations(Tail(s), n)

Adjacent(a, b) == Abs(a[1] - b[1]) <= 1 /\ Abs(a[2] - b[2]) <= 1

\* the pairwise scan entered only for more than two cells
InternallyValidFromThree(combo, n) ==
    IF n > 2
    THEN \A i \in 1..Len(combo) : \A j \in (i + 1)..Len(combo) :
            ~Adjacent(combo[i], combo[j])
    ELSE TRUE

InternallyValid(combo, n) ==
    IF n > 1
    THEN \A i \in 1..Len(combo) : \A j \in (i + 1)..Len(combo) :
            ~Adjacent(combo[i], combo[j])
    ELSE TRUE

\* the body of _get_internally_valid_combos, on the cells in iteration order
InternallyValidCombos(cells, n) ==
    SelectSeq(Combinations(cells, n), LAMBDA combo : InternallyValid(combo, n))

EmptyCache == [store |-> [k \in {} |-> <<>>], hits |-> 0, misses |-> 0]

\* the lru_cache key of a call: the positional arguments
CacheKey(available, n) == <<available, n>>

\* a cache that takes a stored entry for the same number of cells and the same
\* count as a hit, whatever the cells
CachedCombosBySize(c, available, n, order) ==
    LET key == CacheKey(available, n)
        same == {k \in DOMAIN c.store :
                    Cardinality(k[1]) = Cardinality(available) /\ k[2] = n}
    IN  IF same # {}
        THEN [combos |-> c.store[CHOOSE k \in same : TRUE],
              cache |-> [c EXCEPT !.hits = @ + 1]]
        ELSE LET v == InternallyValidCombos(SetToSeq(available, order), n)
             IN  [combos |-> v,
                  cache |-> [store |-> [k \in DOMAIN c.store \cup {key} |->
                                            IF k = key THEN v ELSE c.store[k]],
                             hits |-> c.hits,
                             misses |-> c.misses + 1]]

\* a call through the lru_cache: the stored list on a hit, else compute and store
CachedCombos(c, available, n, order) ==
    LET key == CacheKey(available, n)
    IN  IF key \in DOMAIN c.store
        THEN [combos |-> c.store[key], cache |-> [c EXCEPT !.hits = @ + 1]]
        ELSE LET v == InternallyValidCombos(SetToSeq(available, order), n)
             IN  [combos |-> v,
                  cache |-> [store |-> [k \in DOMAIN c.store \cup {key} |->
                                            IF k = key THEN v ELSE c.store[k]],
                             hits |-> c.hits,
                             misses |-> c.misses + 1]]

\* ---------------------------------------------------- _is_placement_valid
\* the check with the diagonal neighbours forgotten
IsPlacementValidOrthogonal(r, c, board, size) ==
    \A dr \in -1..1 : \A dc \in -1..1 :
        \/ (dr = 0 /\ dc = 0)
        \/ (dr # 0 /\ dc # 0)
        \/ ~(/\ r + dr \in 1..size
             /\ c + dc \in 1..size
             /\ board[r + dr][c + dc] = STAR)

IsPlacementValid(r, c, board, size) ==
    \A dr \in -1..1 : \A dc \in -1..1 :
        \/ (dr = 0 /\ dc = 0)
        \/ ~(/\ r + dr \in 1..size
             /\ c + dc \in 1..size
             /\ board[r + dr][c + dc] = STAR)

\* ------------------------------------------------ _propagate_constraints
\* None is [ok |-> FALSE]; the cache outlives a contradiction

\* lines 201-208: every EMPTY neighbour of a STAR becomes ELIMINATED (stars do
\* not change during the scan, so the scan order does not show in the result)
StarNextTo(r, c, board, size) ==
    \E dr \in -1..1 : \E dc \in -1..1 :
        /\ r + dr \in 1..size
        /\ c + dc \in 1..size
        /\ board[r + dr][c + dc] = STAR

\* the scan with the guard on the neighbour's state forgotten: every cell next
\* to a star, the star's own cell included, is written
EliminateAdjacentUnguarded(board, size) ==
    [r \in 1..size |-> [c \in 1..size |->
        IF StarNextTo(r, c, board, size) THEN ELIMINATED ELSE board[r][c]]]

\* the scan that looks at the four neighbours across an edge only
EliminateAdjacentAcrossEdges(board, size) ==
    [r \in 1..size |-> [c \in 1..size |->
        IF /\ board[r][c] = EMPTY
           /\ \E d \in {<<-1, 0>>, <<1, 0>>, <<0, -1>>, <<0, 1>>} :
                 /\ r + d[1] \in 1..size
                 /\ c + d[2] \in 1..size
                 /\ board[r + d[1]][c + d[2]] = STAR
        THEN ELIMINATED ELSE board[r][c]]]

EliminateAdjacent(board, size) ==
    [r \in 1..size |-> [c \in 1..size |->
        IF board[r][c] = EMPTY /\ StarNextTo(r, c, board, size)
        THEN ELIMINATED ELSE board[r][c]]]

\* the groups with the regions left out
GroupsWithoutRegions(regs, size) ==
    [r \in 1..size |-> [c \in 1..size |-> <<r, c>>]]
    \o [c \in 1..size |-> [r \in 1..size |-> <<r, c>>]]

\* lines 209-213: rows, then columns, then the regions in dict order
Groups(regs, size) ==
    [r \in 1..size |-> [c \in 1..size |-> <<r, c>>]]
    \o [c \in 1..size |-> [r \in 1..size |-> <<r, c>>]]
    \o [i \in 1..Len(regs) |-> regs[i].cells]

\* lines 219-220: the loop over available_cells of a saturated group
RECURSIVE EliminateCells(_, _)
EliminateCells(board, cells) ==
    IF cells = <<>> THEN board
    ELSE EliminateCells(IF At(board, Head(cells)) = EMPTY
                        THEN SetCell(board, Head(cells), ELIMINATED)
                        ELSE board,
                        Tail(cells))

\* the placements checked against the board as it was before the first of them
PlaceForcedUnchecked(board, cells, size) ==
    IF \E i \in 1..Len(cells) :
            ~IsPlacementValid(cells[i][1], cells[i][2], board, size)
    THEN [ok |-> FALSE, board |-> board]
    ELSE [ok |-> TRUE,
          board |-> [r \in 1..size |-> [c \in 1..size |->
                        IF <<r, c>> \in Range(cells) /\ board[r][c] = EMPTY
                        THEN STAR ELSE board[r][c]]]]

\* lines 223-225 and 237-239: place the cells one by one, each checked against
\* the board as it stands
RECURSIVE PlaceForced(_, _, _)
PlaceForced(board, cells, size) ==
    IF cells = <<>> THEN [ok |-> TRUE, board |-> board]
    ELSE LET x == Head(cells)
         IN  IF ~IsPlacementValid(x[1], x[2], board, size)
             THEN [ok |-> FALSE, board |-> board]
             ELSE PlaceForced(IF At(board, x) = EMPTY
                              THEN SetCell(board, x, STAR) ELSE board,
                              Tail(cells), size)

\* the group step without the shortage test of line 221
GroupStepNoShortage(st, group, k, size) ==
    LET star_count == CountIn(st.board, group, STAR)
        available_cells == CellsWith(st.board, group, EMPTY)
    IN  IF star_count > k THEN [st EXCEPT !.ok = FALSE]
        ELSE IF star_count = k
        THEN LET b == EliminateCells(st.board, available_cells)
             IN  [ok |-> TRUE, board |-> b,
                  made_change |-> st.made_change \/ b # st.board]
        ELSE IF star_count + Len(available_cells) = k
        THEN LET p == PlaceForced(st.board, available_cells, size)
             IN  [ok |-> p.ok, board |-> p.board,
                  made_change |-> st.made_change \/ p.board # st.board]
        ELSE st

\* the group step that leaves the cells of a saturated group as they are
GroupStepNoSaturation(st, group, k, size) ==
    LET star_count == CountIn(st.board, group, STAR)
        available_cells == CellsWith(st.board, group, EMPTY)
    IN  IF star_count > k THEN [st EXCEPT !.ok = FALSE]
        ELSE IF star_count = k THEN st
        ELSE IF star_count + Len(available_cells) < k THEN [st EXCEPT !.ok = FALSE]
        ELSE IF star_count + Len(available_cells) = k
        THEN LET p == PlaceForced(st.board, available_cells, size)
             IN  [ok |-> p.ok, board |-> p.board,
                  made_change |-> st.made_change \/ p.board # st.board]
        ELSE st

\* lines 215-225: one group of the pass
GroupStep(st, group, k, size) ==
    LET star_count == CountIn(st.board, group, STAR)
        available_cells == CellsWith(st.board, group, EMPTY)
    IN  IF star_count > k THEN [st EXCEPT !.ok = FALSE]
        ELSE IF star_count = k
        THEN LET b == EliminateCells(st.board, available_cells)
             IN  [ok |-> TRUE, board |-> b,
                  made_change |-> st.made_change \/ b # st.board]
        ELSE IF star_count + Len(available_cells) < k THEN [st EXCEPT !.ok = FALSE]
        ELSE IF star_count + Len(available_cells) = k
        THEN LET p == PlaceForced(st.board, available_cells, size)
             IN  [ok |-> p.ok, board |-> p.board,
                  made_change |-> st.made_change \/ p.board # st.board]
        ELSE st

\* line 214: the loop over the groups, ended by the first contradiction
RECURSIVE GroupPass(_, _, _, _)
GroupPass(st, groups, k, size) ==
    IF groups = <<>> \/ ~st.ok THEN st
    ELSE GroupPass(GroupStep(st, Head(groups), k, size), Tail(groups), k, size)

\* the intersection with the loop over the other combinations forgotten
IntersectionOfFirst(valid_combos) == Range(valid_combos[1])

\* update() where intersection_update() is meant: the cells of any combination
UnionOfCombos(valid_combos) ==
    UNION {Range(valid_combos[i]) : i \in 1..Len(valid_combos)}

\* line 234-236: the cells every valid combination contains
Intersection(valid_combos) ==
    {x \in Range(valid_combos[1]) :
        \A i \in 2..Len(valid_combos) : x \in Range(valid_combos[i])}

\* lines 228-239: one region of the combination scan
RegionStep(st, reg, k, size, order) ==
    LET stars == CountIn(st.board, reg.cells, STAR)
        available == Range(CellsWith(st.board, reg.cells, EMPTY))
        stars_needed == k - stars
    IN  IF stars >= k THEN st
        ELSE IF available = {} \/ stars_needed <= 0 THEN st
        ELSE LET got == CachedCombos(st.cache, available, stars_needed, order)
             IN  IF got.combos = <<>>
                 THEN [st EXCEPT !.ok = FALSE, !.cache = got.cache]
                 ELSE LET p == PlaceForced(st.board,
                                   SetToSeq(Intersection(got.combos), order),
                                   size)
                      IN  [ok |-> p.ok, board |-> p.board,
                           made_change |-> st.made_change \/ p.board # st.board,
                           cache |-> got.cache]

\* line 227: the loop over self.regions
RECURSIVE RegionPass(_, _, _, _, _)
RegionPass(st, regs, k, size, order) ==
    IF regs = <<>> \/ ~st.ok THEN st
    ELSE RegionPass(RegionStep(st, Head(regs), k, size, order),
                    Tail(regs), k, size, order)

\* lines 200-239: one turn of the while loop; on a contradiction the board is
\* the copy as the turn left it
Pass(board, c, regs, k, size, order) ==
    LET a == EliminateAdjacent(board, size)
        g == GroupPass([ok |-> TRUE, board |-> a, made_change |-> a # board],
                       Groups(regs, size), k, size)
    IN  IF ~g.ok \/ g.made_change
        THEN [ok |-> g.ok, board |-> g.board, made_change |-> g.made_change,
              cache |-> c]
        ELSE RegionPass([ok |-> TRUE, board |-> g.board,
                         made_change |-> FALSE, cache |-> c],
                        regs, k, size, order)

\* one pass instead of the loop: the board is returned after the first pass
PropagateOnePass(board, c, regs, k, size, order) ==
    LET a == EliminateAdjacent(board, size)
        g == GroupPass([ok |-> TRUE, board |-> a, made_change |-> a # board],
                       Groups(regs, size), k, size)
        x == RegionPass([ok |-> TRUE, board |-> g.board,
                         made_change |-> FALSE, cache |-> c],
                        regs, k, size, order)
    IN  IF ~g.ok THEN [ok |-> FALSE, board |-> <<>>, cache |-> c]
        ELSE IF g.made_change THEN [ok |-> TRUE, board |-> g.board, cache |-> c]
        ELSE IF ~x.ok THEN [ok |-> FALSE, board |-> <<>>, cache |-> x.cache]
        ELSE [ok |-> TRUE, board |-> x.board, cache |-> x.cache]

\* lines 199-240: passes until one changes nothing
RECURSIVE PropagateConstraints(_, _, _, _, _, _)
PropagateConstraints(board, c, regs, k, size, order) ==
    LET a == EliminateAdjacent(board, size)
        g == GroupPass([ok |-> TRUE, board |-> a, made_change |-> a # board],
                       Groups(regs, size), k, size)
    IN  IF ~g.ok THEN [ok |-> FALSE, board |-> <<>>, cache |-> c]
        ELSE IF g.made_change
        THEN PropagateConstraints(g.board, c, regs, k, size, order)
        ELSE LET x == RegionPass([ok |-> TRUE, board |-> g.board,
                                  made_change |-> FALSE, cache |-> c],
                                 regs, k, size, order)
             IN  IF ~x.ok THEN [ok |-> FALSE, board |-> <<>>, cache |-> x.cache]
                 ELSE IF x.made_change
                 THEN PropagateConstraints(x.board, x.cache, regs, k, size, order)
                 ELSE [ok |-> TRUE, board |-> x.board, cache |-> x.cache]

\* ------------------------------------------------------------ _backtrack
\* lines 259-267: the scan of the unsolved regions; exit is an early return
RECURSIVE Choices(_, _, _, _, _, _, _)
Choices(ids, board, acc, regs, k, size, order) ==
    IF ids = <<>> \/ acc.exit THEN acc
    ELSE LET region_id == Head(ids)
             cells == RegionCells(regs, region_id)
             stars_to_place == k - CountIn(board, cells, STAR)
             available_cells == Range(CellsWith(board, cells, EMPTY))
         IN  IF stars_to_place <= 0
             THEN Choices(Tail(ids), board, acc, regs, k, size, order)
             ELSE IF Cardinality(available_cells) < stars_to_place
             THEN [acc EXCEPT !.exit = TRUE]
             ELSE LET got == CachedCombos(acc.cache, available_cells,
                                          stars_to_place, order)
                  IN  IF got.combos = <<>>
                      THEN [acc EXCEPT !.exit = TRUE, !.cache = got.cache]
                      ELSE Choices(Tail(ids), board,
                                   [exit |-> FALSE,
                                    choices |-> Append(acc.choices,
                                        [id |-> region_id, combos |-> got.combos]),
                                    cache |-> got.cache],
                                   regs, k, size, order)

\* the first choice taken, whatever the number of its combinations
BestChoiceFirst(choices) == choices[1]

\* line 273: min() keeps the first of the choices with the fewest combinations
BestChoice(choices) ==
    choices[CHOOSE i \in 1..Len(choices) :
                \A j \in 1..Len(choices) :
                    /\ Len(choices[i].combos) <= Len(choices[j].combos)
                    /\ (j < i => Len(choices[j].combos) > Len(choices[i].combos))]

\* lines 251, 270: sum(row.count(STAR) for row in board) == dim * stars_per_region
StarCountOk(board, k, size) == CountIn(board, AllCells(size), STAR) = size * k

\* lines 252, 271: the recorded grid
SolutionBoard(board, size) ==
    [r \in 1..size |-> [c \in 1..size |-> IF board[r][c] = STAR THEN 1 ELSE 0]]

\* line 282
RECURSIVE PlaceCombo(_, _)
PlaceCombo(board, combo) ==
    IF combo = <<>> THEN board
    ELSE PlaceCombo(SetCell(board, Head(combo), STAR), Tail(combo))

\* lines 281-282 without the copy: the stars go to the frame's own board
NextBoardShared(board, combo) ==
    [board |-> PlaceCombo(board, combo), next_board |-> PlaceCombo(board, combo)]

\* lines 281-282: next_board is a deep copy of the frame's board, and the stars
\* of the combination are written to the copy; the frame's board stays
NextBoard(board, combo) ==
    [board |-> board, next_board |-> PlaceCombo(board, combo)]

\* lines 250-257: no region is left unsolved: record the board if its star
\* count is right, and return
AllSolved(sols, board, k, size) ==
    IF StarCountOk(board, k, size)
    THEN Append(sols, SolutionBoard(board, size))
    ELSE sols

\* the board recorded before the second propagation and again after it
NothingToPlaceTwice(sols, p, k, size) ==
    IF p.ok /\ p.board # <<>> /\ StarCountOk(p.board, k, size)
    THEN sols \o <<SolutionBoard(p.board, size), SolutionBoard(p.board, size)>>
    ELSE sols

\* lines 268-272: no region is left to branch on: the outcome p of the second
\* propagation is recorded if it is a board with the right star count
NothingToPlace(sols, p, k, size) ==
    IF p.ok /\ p.board # <<>> /\ StarCountOk(p.board, k, size)
    THEN Append(sols, SolutionBoard(p.board, size))
    ELSE sols

\* the first of the unsolved regions taken out instead of the chosen one
NextUnsolvedWithoutFirst(unsolved_regions, region_id) ==
    unsolved_regions \ {CHOOSE id \in unsolved_regions :
                            \A other \in unsolved_regions : id <= other}

\* the chosen region left in the set handed to the recursive call
NextUnsolvedKeeping(unsolved_regions, region_id) == unsolved_regions

\* line 283: next_unsolved = unsolved_regions - {region_id}
NextUnsolved(unsolved_regions, region_id) == unsolved_regions \ {region_id}

\* the test of line 285 off by one
StopNowLate(sols) == Len(sols) > max_solutions

\* line 285
StopNow(sols) == Len(sols) >= max_solutions

\* lines 276-279: every cell of the combination against the current board
ExternallyValid(combo, board, size) ==
    \A i \in 1..Len(combo) : IsPlacementValid(combo[i][1], combo[i][2], board, size)

\* a _backtrack invocation returned: its caller, if any, is at line 285
BackInCaller(stk) ==
    IF stk = <<>> THEN stk
    ELSE [stk EXCEPT ![Len(stk)].after_call = TRUE]

\* ------------------------------------------- the search without the cache
\* _backtrack with every lookup of the combinations computed afresh (each call
\* of the propagator and of the region scan starts from an empty cache, whose
\* content after the call is dropped): what solve() returns when the cache
\* never answers
RECURSIVE UncachedBacktrack(_, _, _, _, _, _, _)
RECURSIVE UncachedLoop(_, _, _, _, _, _, _, _, _)
UncachedBacktrack(board0, unsolved_regions, sols, regs, k, size, order) ==
    LET p == PropagateConstraints(board0, EmptyCache, regs, k, size, order)
        ch == Choices(SortedIds(unsolved_regions), p.board,
                      [exit |-> FALSE, choices |-> <<>>, cache |-> EmptyCache],
                      regs, k, size, order)
        p2 == PropagateConstraints(p.board, EmptyCache, regs, k, size, order)
    IN  IF ~p.ok THEN sols
        ELSE IF unsolved_regions = {} THEN AllSolved(sols, p.board, k, size)
        ELSE IF ch.exit THEN sols
        ELSE IF ch.choices = <<>> THEN NothingToPlace(sols, p2, k, size)
        ELSE UncachedLoop(p.board, unsolved_regions, BestChoice(ch.choices), 1,
                          sols, regs, k, size, order)

UncachedLoop(board, unsolved_regions, best_choice, i, sols, regs, k, size, order) ==
    IF i > Len(best_choice.combos) THEN sols
    ELSE IF ~ExternallyValid(best_choice.combos[i], board, size)
    THEN UncachedLoop(board, unsolved_regions, best_choice, i + 1, sols,
                      regs, k, size, order)
    ELSE LET got == UncachedBacktrack(
                        PlaceCombo(board, best_choice.combos[i]),
                        NextUnsolved(unsolved_regions, best_choice.id),
                        sols, regs, k, size, order)
         IN  IF StopNow(got) THEN got
             ELSE UncachedLoop(board, unsolved_regions, best_choice, i + 1, got,
                               regs, k, size, order)

\* solve() of a new solver object, the cache never answering
UncachedSolve ==
    UncachedBacktrack([r \in 1..dim |-> [c \in 1..dim |-> EMPTY]],
                      RegionIds(regions), <<>>, regions, stars_per_region,
                      dim, hash_order)

\* ------------------------------------------------------------- the puzzles
Rows4 == <<<<1, 1, 1, 1>>, <<2, 2, 2, 2>>, <<3, 3, 3, 3>>, <<4, 4, 4, 4>>>>
Blocks4 == <<<<1, 1, 2, 2>>, <<1, 1, 2, 2>>, <<3, 3, 4, 4>>, <<3, 3, 4, 4>>>>
Corner4 == <<<<1, 2, 2, 2>>, <<2, 2, 2, 2>>, <<3, 3, 3, 3>>, <<4, 4, 4, 4>>>>
Rows5 == <<<<1, 1, 1, 1, 1>>, <<2, 2, 2, 2, 2>>, <<3, 3, 3, 3, 3>>,
           <<4, 4, 4, 4, 4>>, <<5, 5, 5, 5, 5>>>>
NoSolution5 == <<<<1, 1, 2, 2, 2>>, <<1, 1, 3, 3, 3>>, <<4, 3, 3, 3, 3>>,
                 <<4, 3, 3, 3, 5>>, <<4, 3, 3, 3, 5>>>>
Unique5 == <<<<1, 1, 2, 2, 2>>, <<1, 3, 3, 3, 2>>, <<3, 3, 3, 4, 2>>,
             <<5, 5, 4, 4, 4>>, <<5, 5, 5, 5, 4>>>>
Two5 == <<<<1, 1, 2, 2, 3>>, <<1, 1, 2, 2, 3>>, <<1, 1, 2, 2, 2>>,
          <<4, 4, 4, 2, 2>>, <<4, 4, 5, 5, 5>>>>
Three5 == <<<<1, 2, 2, 3, 3>>, <<1, 2, 2, 2, 3>>, <<1, 2, 2, 2, 4>>,
            <<5, 2, 2, 4, 4>>, <<5, 5, 5, 4, 4>>>>
ShortRow4 == <<<<1, 1, 1, 1>>, <<2, 2, 2, 2>>, <<3, 3, 3, 3>>, <<4, 4, 4>>>>
LongRow4 == <<<<1, 1, 1, 1, 1>>, <<2, 2, 2, 2>>, <<3, 3, 3, 3>>, <<4, 4, 4, 4>>>>

\* an 8 x 8 puzzle for two stars per region, with one solution
Eight2 == <<<<1, 1, 3, 3, 3, 5, 5, 5>>, <<1, 1, 1, 3, 3, 5, 5, 5>>,
           <<1, 1, 1, 3, 3, 3, 7, 7>>, <<1, 1, 1, 3, 7, 7, 7, 7>>,
           <<4, 8, 8, 8, 8, 7, 2, 2>>, <<4, 6, 6, 8, 8, 7, 2, 2>>,
           <<4, 6, 6, 6, 6, 7, 7, 2>>, <<6, 6, 6, 6, 6, 2, 2, 2>>>>

\* an 8x8 puzzle for two stars per region without a solution, in which the
\* region with the fewest combinations is not the one with the fewest cells
Crowded8 == <<<<5, 5, 1, 1, 1, 4, 7, 7>>, <<5, 5, 8, 1, 1, 4, 7, 7>>,
              <<5, 5, 8, 1, 1, 4, 7, 7>>, <<5, 8, 8, 1, 1, 7, 7, 7>>,
              <<8, 8, 8, 3, 1, 1, 7, 7>>, <<8, 8, 3, 3, 6, 6, 6, 6>>,
              <<8, 3, 3, 6, 6, 6, 6, 6>>, <<8, 8, 2, 2, 2, 2, 2, 6>>>>

\* a 9x9 grid of nine scattered regions for two stars per region, with two
\* solutions, on which the search branches on every region in turn
Scattered9 == <<<<6, 4, 5, 5, 9, 9, 9, 9, 9>>, <<4, 2, 7, 7, 4, 4, 4, 5, 1>>,
                <<7, 1, 9, 7, 5, 2, 9, 1, 9>>, <<1, 9, 5, 1, 3, 4, 1, 5, 7>>,
                <<3, 7, 2, 5, 4, 4, 3, 3, 2>>, <<6, 8, 5, 4, 2, 5, 4, 9, 7>>,
                <<6, 5, 7, 7, 8, 5, 2, 1, 9>>, <<1, 6, 6, 8, 1, 5, 1, 9, 2>>,
                <<4, 4, 4, 4, 9, 1, 9, 2, 9>>>>

BaseGrids == {Rows4, Blocks4, Corner4}

\* a grid and the grids that differ from it in one cell, an id past N included
Variants(g) ==
    {g} \cup {[g EXCEPT ![r][c] = v] :
                r \in 1..Len(g), c \in 1..Len(g), v \in 1..(Len(g) + 1)}

Grids ==
    UNION {Variants(g) : g \in BaseGrids}
    \cup {Rows5, NoSolution5, Unique5, Two5, Three5}
    \cup {ShortRow4, LongRow4}

\* the puzzles solved with two stars per region only
TwoStarGrids == {Eight2, Crowded8}

\* the puzzles a later solver object of the same process is built for
LaterGrids == {Blocks4, Three5}

NoStats == [nodes_visited |-> 0, max_recursion_depth |-> 0]

\* the grids a player starts from: constants.py, STATE_EMPTY, STATE_STAR and
\* STATE_SECONDARY_MARK are 0, 1 and 2
BlankGrid == <<<<0, 0>>, <<0, 0>>>>
StartGrids == {BlankGrid, <<<<0, 1>>, <<2, 0>>>>}

\* no StarBattleSolver object exists
NoCellSolver ==
    /\ cell_board = <<>>
    /\ row_counts = <<>>
    /\ col_counts = <<>>
    /\ region_counts = <<>>
    /\ frames = <<>>
    /\ board_refs = {}

\* no SBN string is being written or read
NoSbn ==
    /\ sbn_input = <<>>
    /\ sbn_string = <<>>
    /\ decoded = <<>>

\* the history manager while the solver is the one at work
NoHistory ==
    /\ initial_state = BlankGrid
    /\ changes = <<>>
    /\ pointer = 0
    /\ redo_dropped = FALSE

\* --------------------------------------------------------------- __init__
Construct(grid, k) ==
    /\ region_grid' = grid
    /\ dim' = Len(grid)
    /\ stars_per_region' = k
    /\ solutions' = <<>>
    /\ stats' = NoStats
    /\ regions' = IF InitRaises(grid) THEN <<>> ELSE BuildRegions(grid, Len(grid))
    /\ pc' = IF InitRaises(grid) THEN "IndexError" ELSE "ready"
    /\ call' = <<>>
    /\ stack' = <<>>
    /\ solveCalls' = 0
    /\ returned' = <<>>

Init ==
    /\ hash_order \in {"ascending", "descending"}
    /\ cache = EmptyCache
    /\ \E grid \in Grids \cup TwoStarGrids, k \in 0..MaxStars :
        /\ grid \in TwoStarGrids => k = 2
        /\ region_grid = grid
        /\ dim = Len(grid)
        /\ stars_per_region = k
        /\ solutions = <<>>
        /\ stats = NoStats
        /\ regions = IF InitRaises(grid) THEN <<>> ELSE BuildRegions(grid, Len(grid))
        /\ pc = IF InitRaises(grid) THEN "IndexError" ELSE "ready"
        /\ call = <<>>
        /\ stack = <<>>
        /\ solveCalls = 0
        /\ returned = <<>>
    /\ NoHistory
    /\ NoCellSolver
    /\ NoSbn

\* another solver object is constructed after a finished solve(); the cache is
\* a class attribute and the hash order the process's, so both stay
NewSolver ==
    /\ pc = "done"
    /\ \E grid \in LaterGrids, k \in 1..MaxStars : Construct(grid, k)
    /\ UNCHANGED <<cache, hash_order, history_vars, cell_vars, sbn_vars>>

\* solve(), lines 166-169, up to the call of _backtrack
EnterSolve ==
    /\ solveCalls' = solveCalls + 1
    /\ cache' = EmptyCache
    /\ call' = <<[board |-> [r \in 1..dim |-> [c \in 1..dim |-> EMPTY]],
                 unsolved |-> RegionIds(regions),
                 depth |-> 0]>>
    /\ pc' = "solving"
    /\ UNCHANGED <<region_grid, dim, stars_per_region, regions, solutions, stats,
                   hash_order, stack, returned, history_vars, cell_vars, sbn_vars>>

\* the first solve() on a solver object
Solve ==
    /\ pc = "ready"
    /\ EnterSolve

\* solve() again on the same solver object
SolveAgain ==
    /\ pc = "done"
    /\ solveCalls < MaxSolveCalls
    /\ EnterSolve

\* _backtrack, lines 242-274: from its entry to its return or to its combo loop
Backtrack ==
    /\ pc = "solving"
    /\ call # <<>>
    /\ LET board0 == call[1].board
           unsolved_regions == call[1].unsolved
           depth == call[1].depth
           p == PropagateConstraints(board0, cache, regions, stars_per_region,
                                     dim, hash_order)
           ch == Choices(SortedIds(unsolved_regions), p.board,
                         [exit |-> FALSE, choices |-> <<>>, cache |-> p.cache],
                         regions, stars_per_region, dim, hash_order)
           p2 == PropagateConstraints(p.board, ch.cache, regions,
                                      stars_per_region, dim, hash_order)
           best_choice == BestChoice(ch.choices)
       IN  /\ stats' = [nodes_visited |-> stats.nodes_visited + 1,
                        max_recursion_depth |->
                            Max(stats.max_recursion_depth, depth)]
           /\ call' = <<>>
           /\ IF ~p.ok
              THEN /\ cache' = p.cache
                   /\ solutions' = solutions
                   /\ stack' = BackInCaller(stack)
              ELSE IF unsolved_regions = {}
              THEN /\ cache' = p.cache
                   /\ solutions' = AllSolved(solutions, p.board,
                                             stars_per_region, dim)
                   /\ stack' = BackInCaller(stack)
              ELSE IF ch.exit
              THEN /\ cache' = ch.cache
                   /\ solutions' = solutions
                   /\ stack' = BackInCaller(stack)
              ELSE IF ch.choices = <<>>
              THEN /\ cache' = p2.cache
                   /\ solutions' = NothingToPlace(solutions, p2,
                                                  stars_per_region, dim)
                   /\ stack' = BackInCaller(stack)
              ELSE /\ cache' = ch.cache
                   /\ solutions' = solutions
                   /\ stack' = Append(stack,
                        [board |-> p.board,
                         unsolved |-> unsolved_regions,
                         depth |-> depth,
                         region_id |-> best_choice.id,
                         combos |-> best_choice.combos,
                         i |-> 1,
                         after_call |-> FALSE])
    /\ UNCHANGED <<region_grid, dim, stars_per_region, regions, hash_order, pc,
                   solveCalls, returned, history_vars, cell_vars, sbn_vars>>

\* lines 275-284: one turn of the loop over best_choice['combos'], or its end
NextCombo ==
    /\ pc = "solving"
    /\ call = <<>>
    /\ stack # <<>>
    /\ LET f == stack[Len(stack)]
       IN  /\ ~f.after_call
           /\ IF f.i > Len(f.combos)
              THEN /\ stack' = BackInCaller(SubSeq(stack, 1, Len(stack) - 1))
                   /\ call' = call
              ELSE IF ExternallyValid(f.combos[f.i], f.board, dim)
              THEN LET nb == NextBoard(f.board, f.combos[f.i])
                   IN  /\ stack' = [stack EXCEPT ![Len(stack)].i = f.i + 1,
                                                 ![Len(stack)].board = nb.board]
                       /\ call' = <<[board |-> nb.next_board,
                                     unsolved |-> NextUnsolved(f.unsolved, f.region_id),
                                     depth |-> f.depth + 1]>>
              ELSE /\ stack' = [stack EXCEPT ![Len(stack)].i = f.i + 1]
                   /\ call' = <<>>
    /\ UNCHANGED <<region_grid, dim, stars_per_region, regions, solutions, stats,
                   cache, hash_order, pc, solveCalls, returned, history_vars, cell_vars, sbn_vars>>

\* line 285: after the recursive call, return once max_solutions are recorded
CheckStop ==
    /\ pc = "solving"
    /\ call = <<>>
    /\ stack # <<>>
    /\ stack[Len(stack)].after_call
    /\ stack' = IF StopNow(solutions)
                THEN BackInCaller(SubSeq(stack, 1, Len(stack) - 1))
                ELSE [stack EXCEPT ![Len(stack)].after_call = FALSE]
    /\ UNCHANGED <<region_grid, dim, stars_per_region, regions, solutions, stats,
                   cache, hash_order, call, pc, solveCalls, returned, history_vars, cell_vars, sbn_vars>>

\* solve(), line 170: return self.solutions, self.stats
Return ==
    /\ pc = "solving"
    /\ call = <<>>
    /\ stack = <<>>
    /\ pc' = "done"
    /\ returned' = Append(returned, [solutions |-> solutions, stats |-> stats])
    /\ UNCHANGED <<region_grid, dim, stars_per_region, regions, solutions, stats,
                   cache, hash_order, call, stack, solveCalls, history_vars, cell_vars, sbn_vars>>

Next == Solve \/ Backtrack \/ NextCombo \/ CheckStop \/ Return \/ NewSolver

\* every solver object is used as the repository's callers use it: solve() once
Spec == Init /\ [][Next]_vars

\* the same callers, the 9x9 grid among the puzzles of the first solver object
InitDeep ==
    \/ Init
    \/ /\ hash_order \in {"ascending", "descending"}
       /\ cache = EmptyCache
       /\ region_grid = Scattered9
       /\ dim = Len(Scattered9)
       /\ stars_per_region = 2
       /\ solutions = <<>>
       /\ stats = NoStats
       /\ regions = BuildRegions(Scattered9, Len(Scattered9))
       /\ pc = "ready"
       /\ call = <<>>
       /\ stack = <<>>
       /\ solveCalls = 0
       /\ returned = <<>>
       /\ NoHistory
       /\ NoCellSolver
       /\ NoSbn

SpecDeep == InitDeep /\ [][Next]_vars

\* a caller may also call solve() again on the object it holds
NextReuse == Next \/ SolveAgain

SpecReuse == Init /\ [][NextReuse]_vars

\* ---------------------------------------------------------- HistoryManager
\* A manager is [initial_state, changes, pointer]; a change is <<r, c, from, to>>
\* with r, c counted from 0 as in the code; a string is a tuple of characters.

\* constants.py: SBN_B64_ALPHABET
SBN_B64_ALPHABET ==
    <<"0", "1", "2", "3", "4", "5", "6", "7", "8", "9",
      "A", "B", "C", "D", "E", "F", "G", "H", "I", "J", "K", "L", "M",
      "N", "O", "P", "Q", "R", "S", "T", "U", "V", "W", "X", "Y", "Z",
      "a", "b", "c", "d", "e", "f", "g", "h", "i", "j", "k", "l", "m",
      "n", "o", "p", "q", "r", "s", "t", "u", "v", "w", "x", "y", "z",
      "-", "_">>

\* the keys of SBN_INT_TO_CHAR
SbnInts == 0..(Len(SBN_B64_ALPHABET) - 1)

\* the keys of SBN_CHAR_TO_INT
SbnChars == Range(SBN_B64_ALPHABET)

\* SBN_INT_TO_CHAR[i], for i among its keys
SBN_INT_TO_CHAR(i) == SBN_B64_ALPHABET[i + 1]

\* SBN_CHAR_TO_INT[ch], for ch in the alphabet
SBN_CHAR_TO_INT(ch) ==
    (CHOOSE i \in 1..Len(SBN_B64_ALPHABET) : SBN_B64_ALPHABET[i] = ch) - 1

\* HistoryManager(initial_state)
NewManager(initial) == [initial_state |-> initial, changes |-> <<>>, pointer |-> 0]

\* can_undo, can_redo
CanUndo(m) == m.pointer > 0

\* can_redo that keeps the last change out of reach
CanRedoButLast(m) == m.pointer < Len(m.changes) - 1

CanRedo(m) == m.pointer < Len(m.changes)

\* add_change that appends without dropping the undone changes
AddChangeKeepingRedo(m, change) ==
    [m EXCEPT !.changes = Append(m.changes, change), !.pointer = m.pointer + 1]

\* add_change
AddChangeTo(m, change) ==
    LET kept == IF m.pointer < Len(m.changes)
                THEN SubSeq(m.changes, 1, m.pointer)
                ELSE m.changes
    IN  [m EXCEPT !.changes = Append(kept, change), !.pointer = m.pointer + 1]

\* undo and redo, as far as the manager's state goes
UndoOf(m) == IF CanUndo(m) THEN [m EXCEPT !.pointer = m.pointer - 1] ELSE m

RedoOf(m) == IF CanRedo(m) THEN [m EXCEPT !.pointer = m.pointer + 1] ELSE m

\* get_current_grid: the loop over range(self.pointer), from its turn i on
RECURSIVE ApplyChanges(_, _, _)
ApplyChanges(grid, m, i) ==
    IF i >= m.pointer THEN grid
    ELSE LET change == m.changes[i + 1]
         IN  ApplyChanges([grid EXCEPT ![change[1] + 1][change[2] + 1] = change[4]],
                          m, i + 1)

GetCurrentGrid(m) == ApplyChanges(m.initial_state, m, 0)

\* serialize: "" without changes, else "h:<4 characters per change>:<pointer>"
Serialize(m) ==
    IF m.changes = <<>> THEN <<>>
    ELSE <<"h", ":">>
         \o [i \in 1..(4 * Len(m.changes)) |->
                SBN_INT_TO_CHAR(m.changes[((i - 1) \div 4) + 1][((i - 1) % 4) + 1])]
         \o <<":", IF m.pointer \in SbnInts
                   THEN SBN_INT_TO_CHAR(m.pointer) ELSE "0">>

\* str.split(':')
Split(str) ==
    LET colons == {i \in 1..Len(str) : str[i] = ":"}
        ends == [k \in 1..(Cardinality(colons) + 1) |->
                    IF k = Cardinality(colons) + 1 THEN Len(str) + 1
                    ELSE CHOOSE i \in colons :
                            Cardinality({j \in colons : j < i}) = k - 1]
    IN  [k \in 1..(Cardinality(colons) + 1) |->
            SubSeq(str, IF k = 1 THEN 1 ELSE ends[k - 1] + 1, ends[k] - 1)]

\* deserialize: a fresh manager on a string of another format or with a
\* character outside the alphabet (the KeyError caught at line 161)
Deserialize(initial, history_string) ==
    LET parts == Split(history_string)
        change_data == parts[2]
        pointer_data == parts[3]
        whole == Len(change_data) \div 4
    IN  IF Len(parts) # 3 \/ parts[1] # <<"h">> THEN NewManager(initial)
        ELSE IF \E i \in 1..(4 * whole) : change_data[i] \notin SbnChars
        THEN NewManager(initial)
        ELSE [initial_state |-> initial,
              changes |-> [n \in 1..whole |->
                            [j \in 1..4 |-> SBN_CHAR_TO_INT(change_data[4 * (n - 1) + j])]],
              pointer |-> IF Len(pointer_data) = 1
                             /\ pointer_data[1] \in SbnChars
                          THEN SBN_CHAR_TO_INT(pointer_data[1]) ELSE 0]

\* the manager the variables hold
Manager == [initial_state |-> initial_state, changes |-> changes, pointer |-> pointer]

SetManager(m) ==
    /\ initial_state' = m.initial_state
    /\ changes' = m.changes
    /\ pointer' = m.pointer

\* the states of a cell of the player's grid
STATE_EMPTY == 0
STATE_STAR == 1
STATE_SECONDARY_MARK == 2

\* click_cycle_map: empty -> secondary mark -> star -> empty
CycleState(v) ==
    IF v = STATE_EMPTY THEN STATE_SECONDARY_MARK
    ELSE IF v = STATE_SECONDARY_MARK THEN STATE_STAR
    ELSE STATE_EMPTY

\* the changes the player can make now: the clicked cell goes from the state it
\* shows to the next one; in a long history the clicks stay on one cell
Clicks ==
    LET grid == GetCurrentGrid(Manager)
        cells == IF Len(changes) < MaxFree THEN {<<0, 0>>, <<1, 1>>} ELSE {<<0, 0>>}
    IN  {<<x[1], x[2], grid[x[1] + 1][x[2] + 1], CycleState(grid[x[1] + 1][x[2] + 1])>> :
            x \in cells}

\* the solver while the history manager is the one at work
NoSolver ==
    /\ region_grid = Rows4
    /\ dim = Len(Rows4)
    /\ stars_per_region = 1
    /\ regions = BuildRegions(Rows4, Len(Rows4))
    /\ solutions = <<>>
    /\ stats = NoStats
    /\ cache = EmptyCache
    /\ hash_order = "ascending"
    /\ call = <<>>
    /\ stack = <<>>
    /\ pc = "ready"
    /\ solveCalls = 0
    /\ returned = <<>>

InitHistory ==
    /\ NoSolver
    /\ NoCellSolver
    /\ NoSbn
    /\ \E initial \in StartGrids :
        /\ initial_state = initial
        /\ changes = <<>>
        /\ pointer = 0
    /\ redo_dropped = FALSE

AddChange(change) ==
    /\ Len(changes) < MaxHistory
    /\ SetManager(AddChangeTo(Manager, change))
    /\ redo_dropped' = (pointer < Len(changes))
    /\ UNCHANGED <<solver_vars, cell_vars, sbn_vars>>

Click == \E change \in Clicks : AddChange(change)

Undo ==
    /\ SetManager(UndoOf(Manager))
    /\ redo_dropped' = FALSE
    /\ UNCHANGED <<solver_vars, cell_vars, sbn_vars>>

Redo ==
    /\ SetManager(RedoOf(Manager))
    /\ redo_dropped' = FALSE
    /\ UNCHANGED <<solver_vars, cell_vars, sbn_vars>>

\* reset(initial_state)
Reset ==
    /\ \E initial \in StartGrids : SetManager(NewManager(initial))
    /\ redo_dropped' = FALSE
    /\ UNCHANGED <<solver_vars, cell_vars, sbn_vars>>

\* the history is saved with serialize() and the manager replaced by the one
\* deserialize() builds from the string
Restore ==
    /\ SetManager(Deserialize(initial_state, Serialize(Manager)))
    /\ redo_dropped' = FALSE
    /\ UNCHANGED <<solver_vars, cell_vars, sbn_vars>>

NextHistory == Click \/ Undo \/ Redo \/ Reset \/ Restore

SpecHistory == InitHistory /\ [][NextHistory]_vars

\* ------------------------------------------- histories read from a string
\* the longest list of changes add_change extends while strings are loaded
MaxLoaded == 2

\* history strings handed to deserialize: the three fields of the format, a
\* first field other than "h", whole and cut groups of four characters, a
\* character outside the alphabet, pointer fields of no, one and two
\* characters, a fourth field, and the empty string
HistoryStrings ==
    LET heads == {<<"h">>, <<"g">>}
        change_fields == {<<>>,
                          <<"0", "0", "0">>,
                          <<"0", "0", "0", "2">>,
                          <<"0", "0", "0", "2", "1">>,
                          <<"0", "0", "!", "2">>,
                          <<"0", "0", "0", "2", "1", "1", "0", "1">>}
        pointer_fields == {<<>>, <<"0">>, <<"1">>, <<"2">>, <<"5">>, <<"1", "2">>, <<"!">>}
        three == {h \o <<":">> \o cf \o <<":">> \o pf :
                     h \in heads, cf \in change_fields, pf \in pointer_fields}
    IN  {<<>>} \cup three \cup {str \o <<":", "1">> : str \in three}

\* changes handed to add_change by a caller that does not look at the grid
LoadedChanges == {<<0, 0, 0, 2>>, <<1, 1, 0, 1>>}

\* a manager built by deserialize from a string found in a saved puzzle
InitLoad ==
    /\ NoSolver
    /\ NoCellSolver
    /\ NoSbn
    /\ \E initial \in StartGrids, history_string \in HistoryStrings :
        LET manager == Deserialize(initial, history_string)
        IN  /\ initial_state = manager.initial_state
            /\ changes = manager.changes
            /\ pointer = manager.pointer
    /\ redo_dropped = FALSE

\* deserialize(initial_state, history_string) replaces the manager
Load ==
    /\ \E history_string \in HistoryStrings :
          SetManager(Deserialize(initial_state, history_string))
    /\ redo_dropped' = FALSE
    /\ UNCHANGED <<solver_vars, cell_vars, sbn_vars>>

\* add_change(change)
Record ==
    /\ Len(changes) < MaxLoaded
    /\ \E change \in LoadedChanges : SetManager(AddChangeTo(Manager, change))
    /\ redo_dropped' = (pointer < Len(changes))
    /\ UNCHANGED <<solver_vars, cell_vars, sbn_vars>>

NextLoad == Record \/ Undo \/ Redo \/ Reset \/ Load

SpecLoad == InitLoad /\ [][NextLoad]_vars

\* --------------------------------------------------- Star Battle Notation
\* src/localWebApp/backend/puzzle_handler.py, src/MiscTools/puzzle_variator.py,
\* src/generator.py and the decode_sbn of src/RedditBruteForce.py. A string is
\* a sequence of characters; bits are 0 and 1.

\* SBN_CODE_TO_DIM_MAP and DIM_TO_SBN_CODE_MAP of the web application, of the
\* variator and of the generator: '55' for 5 up to 'PP' for 25, the character
\* being the one the alphabet has at the place of the dimension
SBN_CODE_TO_DIM_MAP ==
    [code \in {<<SBN_B64_ALPHABET[d + 1], SBN_B64_ALPHABET[d + 1]>> : d \in 5..25} |->
        SBN_CHAR_TO_INT(code[1])]

DIM_TO_SBN_CODE_MAP ==
    [d \in 5..25 |-> <<SBN_B64_ALPHABET[d + 1], SBN_B64_ALPHABET[d + 1]>>]

\* SBN_CODE_TO_DIM_MAP of RedditBruteForce.py
SOLVER_SBN_CODE_TO_DIM_MAP ==
    (<<"9", "9">> :> 9) @@ (<<"A", "A">> :> 10) @@ (<<"B", "B">> :> 12)
    @@ (<<"C", "C">> :> 14) @@ (<<"D", "D">> :> 16) @@ (<<"E", "E">> :> 17)
    @@ (<<"F", "F">> :> 18) @@ (<<"G", "G">> :> 20) @@ (<<"H", "H">> :> 21)
    @@ (<<"L", "L">> :> 25)

\* what the functions return: a string, a dictionary, None, or nothing
\* because an exception left the function
StrOf(text) == [kind |-> "str", text |-> text]
None == [kind |-> "None"]
Raised == [kind |-> "raised"]
Unset == [kind |-> "unset"]

\* the borders after the cells but the last of each row, row by row
VerticalBits(grid, size) ==
    [i \in 1..(size * (size - 1)) |->
        LET r == (i - 1) \div (size - 1)
            c == (i - 1) % (size - 1)
        IN  IF grid[r + 1][c + 1] # grid[r + 1][c + 2] THEN 1 ELSE 0]

\* the borders below the cells, listed by rows as the decoders do not read them
HorizontalBitsRowMajor(grid, size) ==
    [i \in 1..(size * (size - 1)) |->
        LET r == (i - 1) \div size
            c == (i - 1) % size
        IN  IF grid[r + 1][c + 1] # grid[r + 2][c + 1] THEN 1 ELSE 0]

\* the borders below the cells but the last of each column, column by column
HorizontalBits(grid, size) ==
    [i \in 1..(size * (size - 1)) |->
        LET c == (i - 1) \div (size - 1)
            r == (i - 1) % (size - 1)
        IN  IF grid[r + 1][c + 1] # grid[r + 2][c + 1] THEN 1 ELSE 0]

\* int(bits, 2) of six bits, and bin(i)[2:].zfill(6)
IntOfBits(bits) ==
    32 * bits[1] + 16 * bits[2] + 8 * bits[3] + 4 * bits[4] + 2 * bits[5] + bits[6]

SixBits(i) ==
    <<(i \div 32) % 2, (i \div 16) % 2, (i \div 8) % 2, (i \div 4) % 2, (i \div 2) % 2, i % 2>>

\* f"{stars}": the decimal digits of the star count
RECURSIVE Digits(_)
Digits(n) ==
    IF n < 10 THEN <<SBN_B64_ALPHABET[n + 1]>>
    ELSE Digits(n \div 10) \o <<SBN_B64_ALPHABET[(n % 10) + 1]>>

\* region_data: the border bits, padded in front to a multiple of six, six to
\* a character
RegionData(grid, size) ==
    LET clean_bitfield == VerticalBits(grid, size) \o HorizontalBits(grid, size)
        padding_needed == (6 - (Len(clean_bitfield) % 6)) % 6
        padded_bitfield == [i \in 1..padding_needed |-> 0] \o clean_bitfield
    IN  [n \in 1..(Len(padded_bitfield) \div 6) |->
            SBN_INT_TO_CHAR(IntOfBits(SubSeq(padded_bitfield, 6 * (n - 1) + 1, 6 * n)))]

\* encode_to_sbn(region_grid, stars) of the web application, without a player
\* grid: flag 'W' and no annotation data
EncodeToSbn(grid, k) ==
    IF Len(grid) \notin DOMAIN DIM_TO_SBN_CODE_MAP THEN None
    ELSE StrOf(DIM_TO_SBN_CODE_MAP[Len(grid)] \o Digits(k) \o <<"W">>
               \o RegionData(grid, Len(grid)))

\* encode_to_sbn of puzzle_variator.py
VariatorEncodeToSbn(grid, k) ==
    IF grid = <<>> \/ grid[1] = <<>> THEN None
    ELSE IF Len(grid) \notin DOMAIN DIM_TO_SBN_CODE_MAP THEN None
    ELSE StrOf(DIM_TO_SBN_CODE_MAP[Len(grid)] \o Digits(k) \o <<"W">>
               \o RegionData(grid, Len(grid)))

\* encode_to_sbn of generator.py
GeneratorEncodeToSbn(grid, k) ==
    IF Len(grid) \notin DOMAIN DIM_TO_SBN_CODE_MAP THEN StrOf(<<"N", "/", "A">>)
    ELSE StrOf(DIM_TO_SBN_CODE_MAP[Len(grid)] \o Digits(k) \o <<"W">>
               \o RegionData(grid, Len(grid)))

\* str[from:to], str.ljust(width, fill) and bits[-n:]
Slice(str, from, to) == SubSeq(str, from + 1, Min(to, Len(str)))

LJust(str, width, fill) == str \o [i \in 1..(width - Len(str)) |-> fill]

LastBits(bits, n) == IF n >= Len(bits) THEN bits ELSE SubSeq(bits, Len(bits) - n + 1, Len(bits))

\* the six bits of every character, one after the other
Bitfield(ints) ==
    [i \in 1..(6 * Len(ints)) |-> SixBits(ints[((i - 1) \div 6) + 1])[((i - 1) % 6) + 1]]

\* the neighbours in the order the flood fill of each tool looks at them
FillOrder == <<"right", "left", "down", "up">>
SolverFillOrder == <<"up", "down", "left", "right">>

\* one popped cell: the neighbours in turn, from the k-th on. A neighbour is
\* taken into the region when it is inside the grid, has no id yet and the
\* bit of the border between them is 0; a bit past the end is an IndexError
RECURSIVE Visit(_, _, _, _, _, _, _, _, _)
Visit(grid, q, cell, region_id, size, v_bits, h_bits, order, k) ==
    IF k > Len(order) THEN [ok |-> TRUE, grid |-> grid, q |-> q]
    ELSE
      LET r == cell[1] - 1
          c == cell[2] - 1
          inside == CASE order[k] = "right" -> c < size - 1
                      [] order[k] = "left" -> c > 0
                      [] order[k] = "down" -> r < size - 1
                      [] order[k] = "up" -> r > 0
          next == CASE order[k] = "right" -> <<r + 1, c + 2>>
                    [] order[k] = "left" -> <<r + 1, c>>
                    [] order[k] = "down" -> <<r + 2, c + 1>>
                    [] order[k] = "up" -> <<r, c + 1>>
          bits == IF order[k] \in {"right", "left"} THEN v_bits ELSE h_bits
          index == CASE order[k] = "right" -> r * (size - 1) + c
                     [] order[k] = "left" -> r * (size - 1) + c - 1
                     [] order[k] = "down" -> c * (size - 1) + r
                     [] order[k] = "up" -> c * (size - 1) + r - 1
      IN  IF ~inside THEN
              Visit(grid, q, cell, region_id, size, v_bits, h_bits, order, k + 1)
          ELSE IF grid[next[1]][next[2]] # 0 THEN
              Visit(grid, q, cell, region_id, size, v_bits, h_bits, order, k + 1)
          ELSE IF index + 1 > Len(bits) THEN [ok |-> FALSE, grid |-> grid, q |-> q]
          ELSE IF bits[index + 1] = 0 THEN
              Visit([grid EXCEPT ![next[1]][next[2]] = region_id], Append(q, next),
                    cell, region_id, size, v_bits, h_bits, order, k + 1)
          ELSE Visit(grid, q, cell, region_id, size, v_bits, h_bits, order, k + 1)

\* while q: r, c = q.popleft() ...
RECURSIVE Fill(_, _, _, _, _, _, _)
Fill(grid, q, region_id, size, v_bits, h_bits, order) ==
    IF q = <<>> THEN [ok |-> TRUE, grid |-> grid]
    ELSE LET seen == Visit(grid, Tail(q), Head(q), region_id, size,
                           v_bits, h_bits, order, 1)
         IN  IF ~seen.ok THEN [ok |-> FALSE, grid |-> grid]
             ELSE Fill(seen.grid, seen.q, region_id, size, v_bits, h_bits, order)

\* the loops over r_start and c_start, from the n-th cell on
RECURSIVE FillFrom(_, _, _, _, _, _, _)
FillFrom(grid, n, region_id, size, v_bits, h_bits, order) ==
    IF n >= size * size THEN [ok |-> TRUE, grid |-> grid]
    ELSE
      LET r == (n \div size) + 1
          c == (n % size) + 1
      IN  IF grid[r][c] # 0 THEN
              FillFrom(grid, n + 1, region_id, size, v_bits, h_bits, order)
          ELSE
            LET filled == Fill([grid EXCEPT ![r][c] = region_id], <<<<r, c>>>>,
                               region_id, size, v_bits, h_bits, order)
            IN  IF ~filled.ok THEN filled
                ELSE FillFrom(filled.grid, n + 1, region_id + 1, size,
                              v_bits, h_bits, order)

\* reconstruct_grid_from_borders(dim, v_bits, h_bits)
ReconstructGridFromBorders(size, v_bits, h_bits, order) ==
    FillFrom([r \in 1..size |-> [c \in 1..size |-> 0]], 0, 1, size,
             v_bits, h_bits, order)

\* the cells of a grid row after row, as the task string lists them
Task(grid) ==
    [i \in 1..(Len(grid) * Len(grid)) |->
        grid[((i - 1) \div Len(grid)) + 1][((i - 1) % Len(grid)) + 1]]

\* the digits int() accepts
DigitChars == {SBN_B64_ALPHABET[i] : i \in 1..10}

\* the border bits the web application and the variator read from a string
BorderBits(str, size) ==
    LET border_bits_needed == 2 * size * (size - 1)
        border_chars == (border_bits_needed + 5) \div 6
        region_data == LJust(Slice(str, 4, 4 + border_chars), border_chars,
                             SBN_B64_ALPHABET[1])
    IN  LastBits(Bitfield([i \in 1..Len(region_data) |->
                              IF region_data[i] \in SbnChars
                              THEN SBN_CHAR_TO_INT(region_data[i]) ELSE 0]),
                 border_bits_needed)

\* decode_sbn of the web application: an unknown size code makes dim None and
\* the product of line 176 a TypeError; a missing or non-digit third character
\* is an IndexError or ValueError, raised again at line 183
DecodeSbn(str) ==
    IF Slice(str, 0, 2) \notin DOMAIN SBN_CODE_TO_DIM_MAP THEN Raised
    ELSE IF Len(str) < 3 THEN Raised
    ELSE IF str[3] \notin DigitChars THEN Raised
    ELSE
      LET size == SBN_CODE_TO_DIM_MAP[Slice(str, 0, 2)]
          full_bitfield == BorderBits(str, size)
          v_bits == Slice(full_bitfield, 0, size * (size - 1))
          h_bits == Slice(full_bitfield, size * (size - 1), Len(full_bitfield))
          rebuilt == ReconstructGridFromBorders(size, v_bits, h_bits, FillOrder)
      IN  IF ~rebuilt.ok THEN Raised
          ELSE [kind |-> "dict", task |-> Task(rebuilt.grid),
                stars |-> SBN_CHAR_TO_INT(str[3])]

\* decode_sbn of puzzle_variator.py: None for an unknown size code and after
\* an exception
VariatorDecodeSbn(str) ==
    IF Slice(str, 0, 2) \notin DOMAIN SBN_CODE_TO_DIM_MAP THEN None
    ELSE IF Len(str) < 3 THEN None
    ELSE IF str[3] \notin DigitChars THEN None
    ELSE
      LET size == SBN_CODE_TO_DIM_MAP[Slice(str, 0, 2)]
          actual_bitfield == BorderBits(str, size)
          v_bits == Slice(actual_bitfield, 0, size * (size - 1))
          h_bits == Slice(actual_bitfield, size * (size - 1), Len(actual_bitfield))
          rebuilt == ReconstructGridFromBorders(size, v_bits, h_bits, FillOrder)
      IN  IF ~rebuilt.ok THEN None
          ELSE [kind |-> "dict", grid |-> rebuilt.grid,
                stars |-> SBN_CHAR_TO_INT(str[3])]

\* decode_sbn of RedditBruteForce.py: its own size codes, every character
\* after the fourth, the bits taken from the front
SolverDecodeSbn(str) ==
    IF Slice(str, 0, 2) \notin DOMAIN SOLVER_SBN_CODE_TO_DIM_MAP THEN None
    ELSE IF Len(str) < 3 THEN None
    ELSE IF str[3] \notin DigitChars THEN None
    ELSE
      LET size == SOLVER_SBN_CODE_TO_DIM_MAP[Slice(str, 0, 2)]
          region_data == Slice(str, 4, Len(str))
          bitfield == Bitfield([i \in 1..Len(region_data) |->
                                   IF region_data[i] \in SbnChars
                                   THEN SBN_CHAR_TO_INT(region_data[i]) ELSE 0])
          num_borders == size * (size - 1)
          vertical_bits == Slice(bitfield, 0, num_borders)
          horizontal_bits == Slice(bitfield, num_borders, num_borders * 2)
          rebuilt == ReconstructGridFromBorders(size, vertical_bits,
                                                horizontal_bits, SolverFillOrder)
      IN  IF \E i \in 1..Len(region_data) : region_data[i] \notin SbnChars THEN None
          ELSE IF ~rebuilt.ok THEN None
          ELSE [kind |-> "dict", task |-> Task(rebuilt.grid),
                stars |-> SBN_CHAR_TO_INT(str[3])]

\* the tools that read SBN strings
Tools == {"backend", "variator", "solver"}

\* the grids written in SBN: 5x5 grids and the grids that differ from two of
\* them in one cell, the 8x8 and 9x9 grids, and a grid of a size without a code
SbnGrids ==
    Variants(Unique5) \cup Variants(Three5)
    \cup {Rows5, NoSolution5, Two5, Eight2, Crowded8, Scattered9, Rows4}

InitSbn ==
    /\ NoSolver
    /\ NoCellSolver
    /\ initial_state = BlankGrid
    /\ changes = <<>>
    /\ pointer = 0
    /\ redo_dropped = FALSE
    /\ \E grid \in SbnGrids, k \in 1..MaxStars : sbn_input = [grid |-> grid, stars |-> k]
    /\ sbn_string = [by |-> "nobody", value |-> Unset]
    /\ decoded = [tool \in Tools |-> Unset]

\* encode_to_sbn of the web application, of the variator and of the generator
EncodeBackend ==
    /\ sbn_string.value.kind = "unset"
    /\ sbn_string' = [by |-> "backend",
                      value |-> EncodeToSbn(sbn_input.grid, sbn_input.stars)]
    /\ UNCHANGED <<sbn_input, decoded, solver_vars, history_vars, cell_vars>>

EncodeVariator ==
    /\ sbn_string.value.kind = "unset"
    /\ sbn_string' = [by |-> "variator",
                      value |-> VariatorEncodeToSbn(sbn_input.grid, sbn_input.stars)]
    /\ UNCHANGED <<sbn_input, decoded, solver_vars, history_vars, cell_vars>>

EncodeGenerator ==
    /\ sbn_string.value.kind = "unset"
    /\ sbn_string' = [by |-> "generator",
                      value |-> GeneratorEncodeToSbn(sbn_input.grid, sbn_input.stars)]
    /\ UNCHANGED <<sbn_input, decoded, solver_vars, history_vars, cell_vars>>

\* decode_sbn of each tool, on the string that was written
DecodeBackend ==
    /\ sbn_string.value.kind = "str"
    /\ decoded["backend"].kind = "unset"
    /\ decoded' = [decoded EXCEPT !["backend"] = DecodeSbn(sbn_string.value.text)]
    /\ UNCHANGED <<sbn_input, sbn_string, solver_vars, history_vars, cell_vars>>

DecodeVariator ==
    /\ sbn_string.value.kind = "str"
    /\ decoded["variator"].kind = "unset"
    /\ decoded' = [decoded EXCEPT !["variator"] = VariatorDecodeSbn(sbn_string.value.text)]
    /\ UNCHANGED <<sbn_input, sbn_string, solver_vars, history_vars, cell_vars>>

DecodeSolver ==
    /\ sbn_string.value.kind = "str"
    /\ decoded["solver"].kind = "unset"
    /\ decoded' = [decoded EXCEPT !["solver"] = SolverDecodeSbn(sbn_string.value.text)]
    /\ UNCHANGED <<sbn_input, sbn_string, solver_vars, history_vars, cell_vars>>

NextSbn ==
    \/ EncodeBackend
    \/ EncodeVariator
    \/ EncodeGenerator
    \/ DecodeBackend
    \/ DecodeVariator
    \/ DecodeSolver

SpecSbn == InitSbn /\ [][NextSbn]_vars

\* -------------------------------------------------------- StarBattleSolver
\* src/BruteForce_Starbattles.py: the solver that goes through the cells one by
\* one, placing and removing stars on its own board. Rows, columns and cells
\* are counted from 1 here, so the base case r == self.dim is r = dim + 1.
\* A frame of _backtrack is [r, c, at, got]: at is "entry", or "placed" or
\* "skipped" once the recursive call of line 245 or of line 256 was made, and
\* got is what that call returned.

\* the board, the counts of the rows and columns of a new solver object
ZeroBoard(size) == [r \in 1..size |-> [c \in 1..size |-> 0]]

ZeroCounts(size) == [i \in 1..size |-> 0]

\* _is_valid_placement without the test of the region's count
IsValidPlacementNoRegion(r, c, b, rc, cc, gc, grid, k, size) ==
    /\ rc[r] < k
    /\ cc[c] < k
    /\ \A dr \in -1..1 : \A dc \in -1..1 :
          \/ (dr = 0 /\ dc = 0)
          \/ ~(/\ r + dr \in 1..size
               /\ c + dc \in 1..size
               /\ b[r + dr][c + dc] = 1)

\* _is_valid_placement: b, rc, cc and gc are self.board, self.row_counts,
\* self.col_counts and self.region_counts
IsValidPlacement(r, c, b, rc, cc, gc, grid, k, size) ==
    /\ rc[r] < k
    /\ cc[c] < k
    /\ gc[grid[r][c]] < k
    /\ \A dr \in -1..1 : \A dc \in -1..1 :
          \/ (dr = 0 /\ dc = 0)
          \/ ~(/\ r + dr \in 1..size
               /\ c + dc \in 1..size
               /\ b[r + dr][c + dc] = 1)

\* line 239: the cell after (r, c)
NextCell(r, c, size) == IF c < size THEN <<r, c + 1>> ELSE <<r + 1, 1>>

\* lines 251-255: (r, c) may stay without a star if the rest of the row can
\* still take the stars the row lacks
CanSkip(rc, r, c, k, size) == k - rc[r] <= size - c

\* the board itself appended to the solutions
SameObject(b) == [grid |-> b, shared |-> TRUE]

\* line 236: deepcopy(self.board), an object of its own
DeepCopy(b) == [grid |-> b, shared |-> FALSE]

\* what self.solutions shows when self.board is b: the places that hold the
\* board object show b
Seen(sols, refs, b) == [i \in 1..Len(sols) |-> IF i \in refs THEN b ELSE sols[i]]

\* _place_star and _remove_star write v to self.board[r][c] and add d to the
\* three counts
WriteStar(r, c, v, d) ==
    /\ cell_board' = [cell_board EXCEPT ![r][c] = v]
    /\ row_counts' = [row_counts EXCEPT ![r] = @ + d]
    /\ col_counts' = [col_counts EXCEPT ![c] = @ + d]
    /\ region_counts' = [region_counts EXCEPT ![region_grid[r][c]] = @ + d]
    /\ solutions' = Seen(solutions, board_refs, [cell_board EXCEPT ![r][c] = v])

\* the top call returns v: to solve() if it is the first call, else to the
\* call below it
ReturnCell(v) ==
    /\ frames' = IF Len(frames) = 1 THEN <<>>
                 ELSE [SubSeq(frames, 1, Len(frames) - 1)
                          EXCEPT ![Len(frames) - 1].got = v]
    /\ pc' = IF Len(frames) = 1 THEN "cell_done" ELSE pc

\* lines 249-258, with the row counts rc of the moment
SkipCell(f, rc) ==
    IF CanSkip(rc, f.r, f.c, stars_per_region, dim)
    THEN LET next == NextCell(f.r, f.c, dim)
         IN  /\ frames' = [frames EXCEPT ![Len(frames)].at = "skipped"]
                          \o <<[r |-> next[1], c |-> next[2],
                                at |-> "entry", got |-> FALSE]>>
             /\ pc' = pc
    ELSE ReturnCell(FALSE)

\* the other solver and the history manager while a StarBattleSolver is at work
OnlyCellSolver ==
    /\ stats = NoStats
    /\ cache = EmptyCache
    /\ hash_order = "ascending"
    /\ call = <<>>
    /\ stack = <<>>
    /\ solveCalls = 0
    /\ returned = <<>>
    /\ NoHistory
    /\ NoSbn

\* the puzzles of the StarBattleSolver
CellGrids == Grids \ {ShortRow4, LongRow4}

\* StarBattleSolver(region_grid, stars_per_region)
InitCell ==
    /\ OnlyCellSolver
    /\ \E grid \in CellGrids, k \in 1..MaxStars :
        /\ region_grid = grid
        /\ dim = Len(grid)
        /\ stars_per_region = k
        /\ regions = BuildRegions(grid, Len(grid))
        /\ cell_board = ZeroBoard(Len(grid))
        /\ solutions = <<>>
        /\ row_counts = ZeroCounts(Len(grid))
        /\ col_counts = ZeroCounts(Len(grid))
        /\ region_counts = [id \in RegionIds(BuildRegions(grid, Len(grid))) |-> 0]
    /\ frames = <<>>
    /\ board_refs = {}
    /\ pc = "cell_ready"

\* solve(), line 192: self._backtrack(0, 0)
SolveCell ==
    /\ pc = "cell_ready"
    /\ pc' = "cell_solving"
    /\ frames' = <<[r |-> 1, c |-> 1, at |-> "entry", got |-> FALSE]>>
    /\ UNCHANGED <<region_grid, dim, stars_per_region, regions, solutions, stats,
                   cache, hash_order, call, stack, solveCalls, returned,
                   history_vars, sbn_vars, cell_board, row_counts, col_counts,
                   region_counts, board_refs>>

\* _backtrack(r, c), lines 228-258: from its entry to its first recursive call
\* or to its return
EnterCell ==
    /\ pc = "cell_solving"
    /\ frames # <<>>
    /\ LET f == frames[Len(frames)]
       IN  /\ f.at = "entry"
           /\ IF Len(solutions) >= max_solutions
              THEN /\ ReturnCell(TRUE)
                   /\ UNCHANGED <<solutions, cell_board, row_counts, col_counts,
                                  region_counts, board_refs>>
              ELSE IF f.r = dim + 1
              THEN LET copy == DeepCopy(cell_board)
                   IN  /\ solutions' = Append(solutions, copy.grid)
                       /\ board_refs' = IF copy.shared
                                        THEN board_refs \cup {Len(solutions) + 1}
                                        ELSE board_refs
                       /\ ReturnCell(Len(solutions) + 1 >= max_solutions)
                       /\ UNCHANGED <<cell_board, row_counts, col_counts,
                                      region_counts>>
              ELSE IF IsValidPlacement(f.r, f.c, cell_board, row_counts,
                                       col_counts, region_counts, region_grid,
                                       stars_per_region, dim)
              THEN LET next == NextCell(f.r, f.c, dim)
                   IN  /\ WriteStar(f.r, f.c, 1, 1)
                       /\ frames' = [frames EXCEPT ![Len(frames)].at = "placed"]
                                    \o <<[r |-> next[1], c |-> next[2],
                                          at |-> "entry", got |-> FALSE]>>
                       /\ pc' = pc
                       /\ UNCHANGED board_refs
              ELSE /\ SkipCell(f, row_counts)
                   /\ UNCHANGED <<solutions, cell_board, row_counts, col_counts,
                                  region_counts, board_refs>>
    /\ UNCHANGED <<region_grid, dim, stars_per_region, regions, stats, cache,
                   hash_order, call, stack, solveCalls, returned, history_vars, sbn_vars>>

\* lines 245-258: the call made after placing the star has returned
AfterPlace ==
    /\ pc = "cell_solving"
    /\ frames # <<>>
    /\ LET f == frames[Len(frames)]
       IN  /\ f.at = "placed"
           /\ IF f.got
              THEN /\ ReturnCell(TRUE)
                   /\ UNCHANGED <<solutions, cell_board, row_counts, col_counts,
                                  region_counts>>
              ELSE /\ WriteStar(f.r, f.c, 0, -1)
                   /\ SkipCell(f, [row_counts EXCEPT ![f.r] = @ - 1])
    /\ UNCHANGED <<region_grid, dim, stars_per_region, regions, stats, cache,
                   hash_order, call, stack, solveCalls, returned, history_vars, sbn_vars,
                   board_refs>>

\* lines 256-258: the call made after leaving the cell empty has returned
AfterSkip ==
    /\ pc = "cell_solving"
    /\ frames # <<>>
    /\ frames[Len(frames)].at = "skipped"
    /\ ReturnCell(frames[Len(frames)].got)
    /\ UNCHANGED <<region_grid, dim, stars_per_region, regions, solutions, stats,
                   cache, hash_order, call, stack, solveCalls, returned,
                   history_vars, sbn_vars, cell_board, row_counts, col_counts,
                   region_counts, board_refs>>

NextCellSolver == SolveCell \/ EnterCell \/ AfterPlace \/ AfterSkip

SpecCell == InitCell /\ [][NextCellSolver]_vars

\* a solver object of either class at work
InitSearch == InitDeep \/ InitCell

NextSearch == Next \/ NextCellSolver

SpecSearch == InitSearch /\ [][NextSearch]_vars

\* ============================================================ the claims
\* What a puzzle and a solution are, stated on the region grid alone.

Square == \A r \in 1..Len(region_grid) : Len(region_grid[r]) = Len(region_grid)

GridCells == {<<r, c>> : r \in 1..Len(region_grid), c \in 1..Len(region_grid)}

GridIds == {region_grid[x[1]][x[2]] : x \in GridCells}

RegionOf(id) == {x \in GridCells : region_grid[x[1]][x[2]] = id}

\* an N x N grid of exactly N regions, and k >= 1
ValidPuzzle ==
    /\ stars_per_region >= 1
    /\ Square
    /\ Cardinality(GridIds) = Len(region_grid)

Stars(g) == {x \in GridCells : g[x[1]][x[2]] = 1}

\* exactly k stars in each row, column and region, no two stars 8-adjacent
ValidPlacement(g) ==
    LET n == Len(region_grid)
        st == Stars(g)
    IN  /\ \A r \in 1..n : Cardinality({x \in st : x[1] = r}) = stars_per_region
        /\ \A c \in 1..n : Cardinality({x \in st : x[2] = c}) = stars_per_region
        /\ \A id \in GridIds : Cardinality(st \cap RegionOf(id)) = stars_per_region
        /\ \A x \in st : \A y \in st : x = y \/ ~Adjacent(x, y)

\* the column sets a row may hold: k columns, no two of them neighbours
RowChoices ==
    {S \in SUBSET (1..Len(region_grid)) :
        /\ Cardinality(S) = stars_per_region
        /\ \A a \in S : \A b \in S : a = b \/ Abs(a - b) > 1}

\* every way to fill rows r..N, row by row, so that no star touches one of the
\* row above (whose columns are prev); each is a set of cells
RECURSIVE RowsFrom(_, _)
RowsFrom(r, prev) ==
    IF r > Len(region_grid) THEN {{}}
    ELSE UNION {
            {{<<r, c>> : c \in S} \cup rest : rest \in RowsFrom(r + 1, S)} :
            S \in {T \in RowChoices :
                      \A a \in T : \A b \in prev : Abs(a - b) > 1}}

\* all valid star placements of the puzzle, found by enumeration
AllPlacements ==
    {st \in RowsFrom(1, {}) :
        /\ \A c \in 1..Len(region_grid) :
              Cardinality({x \in st : x[2] = c}) = stars_per_region
        /\ \A id \in GridIds :
              Cardinality(st \cap RegionOf(id)) = stars_per_region}

\* C1: every grid in the solution list of a valid puzzle has exactly k stars in
\* each row, column and region and no two 8-adjacent stars.
Soundness ==
    ValidPuzzle =>
        /\ \A i \in 1..Len(solutions) : ValidPlacement(solutions[i])
        /\ \A j \in 1..Len(returned) : \A i \in 1..Len(returned[j].solutions) :
              ValidPlacement(returned[j].solutions[i])

\* C1 witness: a solve() that had to branch twice returned a recorded grid
SoundnessWitness ==
    /\ pc = "done"
    /\ ValidPuzzle
    /\ solutions # <<>>
    /\ stats.max_recursion_depth >= 2

\* C2: solve() on a fresh solver for a valid puzzle with m valid placements
\* returns exactly min(m, 2) solutions.
Completeness ==
    (pc = "done" /\ solveCalls = 1 /\ ValidPuzzle) =>
        Len(returned[1].solutions) = Min(Cardinality(AllPlacements), 2)

\* C2 witness: a puzzle with more than two placements, of which two are returned
CompletenessWitness ==
    /\ pc = "done"
    /\ solveCalls = 1
    /\ ValidPuzzle
    /\ Cardinality(AllPlacements) > 2
    /\ Len(returned[1].solutions) = 2

AtMostTwoSolutions ==
    \A j \in 1..Len(returned) : Len(returned[j].solutions) <= max_solutions

\* C5: two solve() runs on the same puzzle return the same solutions in the
\* same order.
SameSolutionsEveryRun ==
    \A i \in 1..Len(returned) : \A j \in 1..Len(returned) :
        returned[i].solutions = returned[j].solutions

TooSmallRegion ==
    /\ Square
    /\ \E id \in GridIds : Cardinality(RegionOf(id)) < stars_per_region

Propagated ==
    PropagateConstraints(call[1].board, cache, regions, stars_per_region, dim,
                         hash_order)

PropagatedAgain ==
    PropagateConstraints(Propagated.board, Propagated.cache, regions,
                         stars_per_region, dim, hash_order)

\* C8: when propagation of a board returns a board, propagating that board
\* again returns the same board, and no contradiction.
IdempotentPropagation ==
    (call # <<>> /\ Propagated.ok) =>
        /\ PropagatedAgain.ok
        /\ PropagatedAgain.board = Propagated.board

\* C8 witness: a propagation that eliminated cells and placed a forced star
IdempotentPropagationWitness ==
    /\ call # <<>>
    /\ Propagated.ok
    /\ CountIn(Propagated.board, AllCells(dim), STAR)
          > CountIn(call[1].board, AllCells(dim), STAR)
    /\ CountIn(Propagated.board, AllCells(dim), EMPTY) > 0

\* the combinations of a list, each as the set of its cells
ComboSets(combos) == {Range(combos[i]) : i \in 1..Len(combos)}

\* C9: what the cache answers for a key is the set of combinations the
\* computation yields for it, whatever calls filled the cache before; and the
\* solutions solve() returns are those of the search in which the cache never
\* answers.
CacheCorrectness ==
    /\ \A key \in DOMAIN cache.store :
          ComboSets(cache.store[key])
            = ComboSets(InternallyValidCombos(SetToSeq(key[1], hash_order), key[2]))
    /\ (pc = "done" /\ solveCalls = 1) =>
          returned[1].solutions = UncachedSolve

\* C9 witness: a solve() of one of the puzzles later solver objects are built
\* for, which found solutions and was answered from the cache
CacheCorrectnessWitness ==
    /\ pc = "done"
    /\ cache.hits > 0
    /\ solutions # <<>>
    /\ region_grid \in LaterGrids

\* C10: a malformed puzzle (k < 1, a grid that is not N x N, region ids that do
\* not form N regions) ends in an explicit error: solve() returns no solution
\* list for it and the solver does not fail with an out-of-range access.
MalformedRejected ==
    ~ValidPuzzle => pc \notin {"done", "IndexError"}

\* C11: the statistics a solve() call returns count only the work of that call:
\* when the root _backtrack invocation of a call is about to run, none has run
\* in this call, so nodes_visited, max_recursion_depth and the cache's hit and
\* miss counters are all zero, also on a solver object solved before.
NoLeakage ==
    (pc = "solving" /\ call # <<>> /\ call[1].depth = 0) =>
        /\ stats = NoStats
        /\ cache.hits = 0
        /\ cache.misses = 0

\* ------------------------------------------------ propagation, pass by pass
\* two cells that touch, diagonally included (a cell touches itself)
Touching(x, y) == x[1] - y[1] \in -1..1 /\ x[2] - y[2] \in -1..1

\* the rows, the columns and the regions of the puzzle, as sets of cells
CellGroups ==
    {{x \in GridCells : x[1] = r} : r \in 1..Len(region_grid)}
    \cup {{x \in GridCells : x[2] = c} : c \in 1..Len(region_grid)}
    \cup {RegionOf(id) : id \in GridIds}

CellsAt(board, S, v) == {x \in S : At(board, x) = v}

NoTouchingStars(board) ==
    \A x \in CellsAt(board, GridCells, STAR) :
        \A y \in CellsAt(board, GridCells, STAR) : x = y \/ ~Touching(x, y)

\* the passes _propagate_constraints makes on a board, up to the first that
\* changes nothing or meets a contradiction
RECURSIVE PassTrace(_, _)
PassTrace(board, c) ==
    LET p == Pass(board, c, regions, stars_per_region, dim, hash_order)
    IN  IF ~p.ok \/ ~p.made_change THEN <<p>>
        ELSE <<p>> \o PassTrace(p.board, p.cache)

\* the board before the first pass and after each pass of the pending call
PassBoards ==
    LET t == PassTrace(call[1].board, cache)
    IN  <<call[1].board>> \o [i \in 1..Len(t) |-> t[i].board]

\* the rows, columns and regions find nothing to do on the board
GroupsIdle(board) ==
    LET a == EliminateAdjacent(board, dim)
        g == GroupPass([ok |-> TRUE, board |-> a, made_change |-> a # board],
                       Groups(regions, dim), stars_per_region, dim)
    IN  g.ok /\ ~g.made_change

\* the placement S has a star on every STAR of the board and none on an
\* ELIMINATED cell
ConsistentWith(S, board) ==
    /\ CellsAt(board, GridCells, STAR) \subseteq S
    /\ CellsAt(board, GridCells, ELIMINATED) \cap S = {}

\* C15: propagation never discards a solution: a valid placement consistent
\* with the board handed to _propagate_constraints is consistent with the board
\* it returns, and it returns no contradiction.
NeverDiscards ==
    (call # <<>> /\ Square) =>
        LET p == Propagated
        IN  \A S \in AllPlacements :
                ConsistentWith(S, call[1].board) =>
                    /\ p.ok
                    /\ ConsistentWith(S, p.board)

\* C15 witness: a board with a placement consistent with it, on which a pass
\* placed a star by the combination-intersection rule
NeverDiscardsWitness ==
    /\ call # <<>>
    /\ Square
    /\ \E S \in AllPlacements : ConsistentWith(S, call[1].board)
    /\ LET t == PassTrace(call[1].board, cache)
       IN  \E i \in 1..Len(t) :
              /\ t[i].ok
              /\ t[i].made_change
              /\ GroupsIdle(PassBoards[i])

\* C16: on every board _propagate_constraints returns, each row, column and
\* region holds at most k stars and at least k stars and unknown cells together.
GroupBounds ==
    call # <<>> =>
        LET p == Propagated
        IN  p.ok =>
                \A G \in CellGroups :
                    /\ Cardinality(CellsAt(p.board, G, STAR)) <= stars_per_region
                    /\ Cardinality(CellsAt(p.board, G, STAR))
                         + Cardinality(CellsAt(p.board, G, EMPTY))
                            >= stars_per_region

\* C16 witness: a returned board that propagation changed, with a group that
\* holds its k stars and a group that still lacks some
GroupBoundsWitness ==
    /\ call # <<>>
    /\ Propagated.ok
    /\ Propagated.board # call[1].board
    /\ stars_per_region >= 1
    /\ \E G \in CellGroups :
          Cardinality(CellsAt(Propagated.board, G, STAR)) = stars_per_region
    /\ \E G \in CellGroups :
          Cardinality(CellsAt(Propagated.board, G, STAR)) < stars_per_region

\* a group of the board that must take all its unknown cells, two of which touch
TouchingForced(board) ==
    \E G \in CellGroups :
        /\ Cardinality(CellsAt(board, G, STAR))
             + Cardinality(CellsAt(board, G, EMPTY)) = stars_per_region
        /\ \E x \in CellsAt(board, G, EMPTY) :
              \E y \in CellsAt(board, G, EMPTY) : x # y /\ Touching(x, y)

\* C17: propagation writes no STAR next to a STAR: a board without touching
\* stars that it returns has none, and a pass that must place two touching cells
\* of a group ends in a contradiction.
ForcedPlacementChecked ==
    call # <<>> =>
        /\ LET p == Propagated
           IN  (p.ok /\ NoTouchingStars(call[1].board))
                  => NoTouchingStars(p.board)
        /\ TouchingForced(EliminateAdjacent(call[1].board, dim))
              => ~Pass(call[1].board, cache, regions, stars_per_region, dim,
                       hash_order).ok

\* C17 witness: a board with stars on which a group must take two touching cells
ForcedPlacementCheckedWitness ==
    /\ call # <<>>
    /\ CellsAt(call[1].board, GridCells, STAR) # {}
    /\ NoTouchingStars(call[1].board)
    /\ TouchingForced(EliminateAdjacent(call[1].board, dim))

\* C18: each pass that reports a change leaves fewer unknown cells than it
\* found, no pass changes a cell that is STAR or ELIMINATED, and the passes on a
\* board are at most N * N productive ones and the one that ends the loop.
PassesTerminate ==
    call # <<>> =>
        LET t == PassTrace(call[1].board, cache)
            b == PassBoards
        IN  /\ Len(t) <= dim * dim + 1
            /\ \A i \in 1..Len(t) :
                  /\ \A x \in GridCells :
                        At(b[i], x) # EMPTY => At(b[i + 1], x) = At(b[i], x)
                  /\ t[i].made_change =>
                        Cardinality(CellsAt(b[i + 1], GridCells, EMPTY))
                          < Cardinality(CellsAt(b[i], GridCells, EMPTY))
            /\ t[Len(t)].ok => Propagated.board = t[Len(t)].board

\* C18 witness: a propagation of a board with stars that took three passes or more
PassesTerminateWitness ==
    /\ call # <<>>
    /\ CellsAt(call[1].board, GridCells, STAR) # {}
    /\ Len(PassTrace(call[1].board, cache)) >= 3
    /\ Propagated.ok

\* C19: no step of the search changes the board of a frame that stays on the
\* stack: after a recursive call returns, by a contradiction, by exhaustion or
\* after recording a solution, the caller's board is what it was before the call.
BoardIsolation ==
    [][\A d \in 1..Len(stack) :
          d <= Len(stack') => stack'[d].board = stack[d].board]_vars

\* C19 witness: a call made by a frame two levels deep has returned after a
\* solution was recorded, and the frame has tried more than one combination
BoardIsolationWitness ==
    /\ pc = "solving"
    /\ Len(stack) >= 2
    /\ stack[Len(stack)].after_call
    /\ stack[Len(stack)].i > 2
    /\ solutions # <<>>

\* the subsets of n cells no two of which touch
NonTouchingSubsets(cells, n) ==
    {S \in SUBSET cells :
        /\ Cardinality(S) = n
        /\ \A x \in S : \A y \in S : x = y \/ ~Touching(x, y)}

\* C20: _get_internally_valid_combos(cells, count) returns exactly the subsets
\* of count cells no two of which are 8-adjacent, each of them once; for count
\* 1, every single cell.
ExactCombos ==
    \A key \in DOMAIN cache.store :
        LET combos == cache.store[key]
        IN  /\ ComboSets(combos) = NonTouchingSubsets(key[1], key[2])
            /\ Len(combos) = Cardinality(ComboSets(combos))
            /\ \A i \in 1..Len(combos) : Len(combos[i]) = key[2]

\* C20 witness: the cache holds the answer for single cells and an answer for
\* pairs from which touching pairs were left out
ExactCombosWitness ==
    /\ \E key \in DOMAIN cache.store : key[2] = 1 /\ Cardinality(key[1]) > 1
    /\ \E key \in DOMAIN cache.store :
          /\ key[2] = 2
          /\ cache.store[key] # <<>>
          /\ \E x \in key[1] : \E y \in key[1] : x # y /\ Touching(x, y)

\* the manager the variables hold after the step
ManagerAfter ==
    [initial_state |-> initial_state', changes |-> changes', pointer |-> pointer']

\* C12: add_change(x) called with pointer < len(changes) leaves changes equal to
\* the old changes[0..pointer-1] followed by x and pointer equal to
\* len(changes), so that can_redo() is false.
AddChangeDropsRedo ==
    [][\A change \in Clicks :
          (AddChange(change) /\ pointer < Len(changes)) =>
              /\ changes' = SubSeq(changes, 1, pointer) \o <<change>>
              /\ pointer' = Len(changes')
              /\ ~CanRedo(ManagerAfter)]_vars

\* C12 witness: an add_change has just dropped undone changes and kept at
\* least one change before the new one
AddChangeDropsRedoWitness ==
    /\ redo_dropped
    /\ Len(changes) >= 2
    /\ pointer = Len(changes)

\* the initial state with, in each cell, the to-state of the last of the first
\* `pointer` changes made to the cell
Overwritten ==
    [r \in 1..Len(initial_state) |-> [c \in 1..Len(initial_state[r]) |->
        LET made == {i \in 1..pointer :
                        changes[i][1] = r - 1 /\ changes[i][2] = c - 1}
        IN  IF made = {} THEN initial_state[r][c]
            ELSE changes[CHOOSE i \in made : \A j \in made : j <= i][4]]]

\* C13: where can_undo() holds, undo() followed by redo() leaves pointer,
\* changes and the grid of get_current_grid() as they were; and
\* get_current_grid() is the initial state overwritten in order by the first
\* `pointer` changes.
UndoRedoInverse ==
    /\ CanUndo(Manager) =>
          /\ RedoOf(UndoOf(Manager)) = Manager
          /\ GetCurrentGrid(RedoOf(UndoOf(Manager))) = GetCurrentGrid(Manager)
    /\ pointer <= Len(changes)
    /\ GetCurrentGrid(Manager) = Overwritten

\* C13 witness: a manager in the middle of its history, some of whose changes
\* show in the grid, with a cell changed more than once
UndoRedoInverseWitness ==
    /\ CanUndo(Manager)
    /\ CanRedo(Manager)
    /\ GetCurrentGrid(Manager) # initial_state
    /\ \E i \in 1..pointer : \E j \in 1..pointer :
          i < j /\ changes[i][1] = changes[j][1] /\ changes[i][2] = changes[j][2]

\* C14: deserialize(initial_state, serialize()) yields a manager with the same
\* changes and the same pointer, whatever the number of recorded changes.
RoundTrip ==
    LET restored == Deserialize(initial_state, Serialize(Manager))
    IN  /\ restored.changes = changes
        /\ restored.pointer = pointer

\* ------------------------------------------------------- the branching step
\* the cells of region id still EMPTY on the board, and the stars it lacks
UnknownIn(board, id) == CellsAt(board, RegionOf(id), EMPTY)

StarsLacking(board, id) ==
    stars_per_region - Cardinality(CellsAt(board, RegionOf(id), STAR))

\* the unsolved regions of frame f that still lack a star
Lacking(f) == {id \in f.unsolved : StarsLacking(f.board, id) > 0}

\* the ways to give region id the stars it lacks on the board of frame f
WaysFor(f, id) ==
    NonTouchingSubsets(UnknownIn(f.board, id), StarsLacking(f.board, id))

\* C21: at every branching step of _backtrack, the region chosen has the
\* fewest EMPTY cells among all regions still in unsolved_regions.
FewestUnknownCells ==
    \A d \in 1..Len(stack) :
        \A id \in stack[d].unsolved :
            Cardinality(UnknownIn(stack[d].board, stack[d].region_id))
                <= Cardinality(UnknownIn(stack[d].board, id))

\* C21 as amended: at every branching step of _backtrack, the region chosen is
\* an unsolved region that lacks a star and has the fewest sets of
\* non-touching EMPTY cells of the size it lacks, among the unsolved regions
\* that lack a star; and the combinations tried are those sets.
FewestCombinations ==
    (Square /\ stack # <<>>) =>
        \A d \in 1..Len(stack) :
            LET f == stack[d]
            IN  /\ f.region_id \in Lacking(f)
                /\ ComboSets(f.combos) = WaysFor(f, f.region_id)
                /\ \A id \in Lacking(f) :
                      Len(f.combos) <= Cardinality(WaysFor(f, id))

\* C21 witness: the search branches on a region that is not the first of the
\* unsolved regions, while another that lacks a star has more combinations
FewestCombinationsWitness ==
    /\ Square
    /\ stack # <<>>
    /\ LET f == stack[Len(stack)]
       IN  /\ \E id \in Lacking(f) :
                 id < f.region_id /\ Cardinality(WaysFor(f, id)) > Len(f.combos)
           /\ Len(f.combos) > 1

\* C22: in every _backtrack invocation depth + |unsolved_regions| is the
\* number of regions of the puzzle, and the recorded max_recursion_depth never
\* exceeds the dimension N.
DepthBound ==
    pc # "IndexError" =>
        /\ call # <<>> =>
              call[1].depth + Cardinality(call[1].unsolved) = Cardinality(GridIds)
        /\ \A d \in 1..Len(stack) :
              /\ stack[d].depth + Cardinality(stack[d].unsolved) = Cardinality(GridIds)
              /\ stack[d].depth = d - 1
        /\ stats.max_recursion_depth <= Cardinality(GridIds)
        /\ stats.max_recursion_depth <= Len(region_grid)

\* C22 witness: an invocation at depth N, reached through N nested frames
\* with every region branched on
DepthBoundWitness ==
    /\ call # <<>>
    /\ call[1].unsolved = {}
    /\ call[1].depth = Len(region_grid)
    /\ Len(stack) = Len(region_grid)
    /\ stats.max_recursion_depth = Len(region_grid) - 1

\* ------------------------------------------------- the recorded solutions
\* the board a solution is made from when the pending call records one: the
\* propagated board if no region is unsolved (line 252), else the board
\* propagated once more (lines 269-271)
ProducingBoard ==
    IF call[1].unsolved = {} THEN Propagated.board ELSE PropagatedAgain.board

\* no cell of the board is EMPTY, and every row, column and region holds
\* exactly stars_per_region stars
Decided(board) ==
    /\ CellsAt(board, GridCells, EMPTY) = {}
    /\ \A G \in CellGroups :
          Cardinality(CellsAt(board, G, STAR)) = stars_per_region

\* C23: whenever _backtrack appends to the solution list, the producing board
\* has no EMPTY cell and every row, column and region holds exactly k stars.
RecordedFromDecided ==
    [][Len(solutions') > Len(solutions) =>
          /\ call # <<>>
          /\ Decided(ProducingBoard)
          /\ solutions' = Append(solutions, SolutionBoard(ProducingBoard, dim))]_vars

\* C23 witness: a nested invocation has recorded a solution with stars on it
\* and the search goes on
RecordedFromDecidedWitness ==
    /\ pc = "solving"
    /\ stack # <<>>
    /\ stars_per_region >= 1
    /\ Len(solutions) = 1
    /\ stats.nodes_visited >= 3

\* C24: once a grid is appended to the solution list it is never removed or
\* altered for the rest of the search, whatever the search does to its working
\* board and counters.
SolutionsPermanent ==
    [][(pc = "solving" \/ pc = "cell_solving") =>
          /\ Len(solutions') >= Len(solutions)
          /\ solutions = SubSeq(solutions', 1, Len(solutions))]_vars

\* C24 witness: the cell-by-cell search goes on after its first solution, on a
\* board that is no longer the one recorded
SolutionsPermanentWitness ==
    /\ pc = "cell_solving"
    /\ frames # <<>>
    /\ Len(solutions) = 1
    /\ cell_board # solutions[1]
    /\ \E r \in 1..dim : row_counts[r] = 0

\* C25: for a puzzle of N regions with 1 <= k <= N, every board the
\* cell-by-cell StarBattleSolver records has exactly k stars in every row,
\* column and region and no two 8-adjacent stars.
CellSoundness ==
    (/\ pc \in {"cell_solving", "cell_done"}
     /\ ValidPuzzle
     /\ stars_per_region <= Len(region_grid)) =>
        \A i \in 1..Len(solutions) : ValidPlacement(solutions[i])

\* C25 witness: the search of a puzzle of N regions ended with two boards
\* recorded at the base case
CellSoundnessWitness ==
    /\ pc = "cell_done"
    /\ ValidPuzzle
    /\ Len(solutions) = max_solutions
    /\ solutions[1] # solutions[2]

\* ------------------------------------------------ checks that never reject
\* the number of stars on the board
StarTotal(board) == Cardinality(CellsAt(board, GridCells, STAR))

\* no unsolved region of the pending call lacks a star on the board: the scan
\* of the regions finds no region to branch on
NoneLacking(board) ==
    \A id \in call[1].unsolved : StarsLacking(board, id) <= 0

\* C26: for a puzzle with exactly N regions, whenever _backtrack reaches the
\* 'no unsolved region' case or the 'no region left to branch on' case on a
\* board that propagation accepted, the board holds N * k stars.
CountCheckPasses ==
    (call # <<>> /\ Square /\ Cardinality(GridIds) = Len(region_grid)) =>
        LET p == Propagated
        IN  p.ok =>
              /\ call[1].unsolved = {} =>
                    StarTotal(p.board) = dim * stars_per_region
              /\ (call[1].unsolved # {} /\ NoneLacking(p.board)) =>
                    LET again == PropagatedAgain
                    IN  /\ again.ok
                        /\ StarTotal(again.board) = dim * stars_per_region

\* C26 witness: every region was branched on and the board with the stars of
\* the last one is accepted by propagation: the 'no unsolved region' case
CountCheckPassesWitness ==
    /\ call # <<>>
    /\ Square
    /\ Cardinality(GridIds) = Len(region_grid)
    /\ call[1].unsolved = {}
    /\ Propagated.ok

\* C27: on the board of every branching step no EMPTY cell touches a STAR, so
\* every cell of every combination offered for the chosen region passes
\* _is_placement_valid against that board.
RecheckPasses ==
    \A d \in 1..Len(stack) :
        LET f == stack[d]
        IN  /\ \A x \in CellsAt(f.board, GridCells, EMPTY) :
                  \A y \in CellsAt(f.board, GridCells, STAR) : ~Touching(x, y)
            /\ \A i \in 1..Len(f.combos) : \A j \in 1..Len(f.combos[i]) :
                  /\ At(f.board, f.combos[i][j]) = EMPTY
                  /\ \A y \in CellsAt(f.board, GridCells, STAR) :
                        ~Touching(f.combos[i][j], y)

\* C27 witness: a branching step on a board that holds stars of other regions,
\* with several combinations tried
RecheckPassesWitness ==
    /\ stack # <<>>
    /\ LET f == stack[Len(stack)]
       IN  /\ CellsAt(f.board, GridCells, STAR) # {}
           /\ Len(f.combos) >= 2
           /\ f.i > 2
           /\ stars_per_region = 2


\* C28: the pointer of a HistoryManager stays between 0 and the number of
\* changes, after add_change, undo, redo and reset and in every manager
\* deserialize returns, so that get_current_grid() reads no change past the
\* end of the list
PointerInRange == pointer >= 0 /\ pointer <= Len(changes)


\* the grid has a size code
Supported(grid) ==
    /\ Len(grid) \in DOMAIN DIM_TO_SBN_CODE_MAP
    /\ \A r \in 1..Len(grid) : Len(grid[r]) = Len(grid)

\* the cells of the set that can be reached from those reached, going from a
\* cell to the cell above, below, left or right of it
RECURSIVE Grow(_, _)
Grow(reached, cells) ==
    LET more == {x \in cells \ reached :
                    \E y \in reached :
                        \/ x[1] = y[1] /\ x[2] - y[2] \in {-1, 1}
                        \/ x[2] = y[2] /\ x[1] - y[1] \in {-1, 1}}
    IN  IF more = {} THEN reached ELSE Grow(reached \cup more, cells)

\* every region of the grid is 4-connected
Connected(grid) ==
    LET cells == {<<r, c>> : r \in 1..Len(grid), c \in 1..Len(grid)}
    IN  \A id \in {grid[x[1]][x[2]] : x \in cells} :
            LET region == {x \in cells : grid[x[1]][x[2]] = id}
            IN  Grow({CHOOSE x \in region : TRUE}, region) = region

\* two cells have the same id in one grid exactly when they have in the other
SamePartition(grid, other) ==
    /\ Len(other) = Len(grid)
    /\ \A r \in 1..Len(grid) : Len(other[r]) = Len(grid)
    /\ \A r1 \in 1..Len(grid), c1 \in 1..Len(grid), r2 \in 1..Len(grid), c2 \in 1..Len(grid) :
          (grid[r1][c1] = grid[r2][c2]) = (other[r1][c1] = other[r2][c2])

\* the rows of a task list of size * size ids
RowsOf(task, size) ==
    [r \in 1..size |-> [c \in 1..size |-> task[(r - 1) * size + c]]]

\* C29: for a region grid of a supported dimension whose regions are
\* 4-connected, the web application's decode_sbn of its encode_to_sbn gives
\* the star count that was written and a grid with the same partition
SbnRoundTrip ==
    (/\ sbn_string.by = "backend"
     /\ decoded["backend"].kind # "unset"
     /\ Supported(sbn_input.grid)
     /\ Connected(sbn_input.grid)) =>
        /\ decoded["backend"].kind = "dict"
        /\ decoded["backend"].stars = sbn_input.stars
        /\ Len(decoded["backend"].task) = Len(sbn_input.grid) * Len(sbn_input.grid)
        /\ SamePartition(sbn_input.grid,
                         RowsOf(decoded["backend"].task, Len(sbn_input.grid)))

\* a grid of connected regions whose border bits need padding and differ when
\* the horizontal borders are listed by rows has been written and read back
SbnRoundTripWitness ==
    /\ sbn_string.by = "backend"
    /\ decoded["backend"].kind = "dict"
    /\ Supported(sbn_input.grid)
    /\ Connected(sbn_input.grid)
    /\ (2 * Len(sbn_input.grid) * (Len(sbn_input.grid) - 1)) % 6 # 0
    /\ HorizontalBits(sbn_input.grid, Len(sbn_input.grid))
         # HorizontalBitsRowMajor(sbn_input.grid, Len(sbn_input.grid))
    /\ sbn_input.stars > 1

\* C30: a string written by encode_to_sbn of the generator or of the variator
\* for a grid of a supported dimension decodes under the decode_sbn of
\* RedditBruteForce.py to the same dimension and the same partition as under
\* the decode_sbn of the variator
SameAcrossTools ==
    (/\ (sbn_string.by = "generator" \/ sbn_string.by = "variator")
     /\ Supported(sbn_input.grid)
     /\ decoded["variator"].kind # "unset"
     /\ decoded["solver"].kind # "unset") =>
        /\ decoded["variator"].kind = "dict"
        /\ decoded["solver"].kind = "dict"
        /\ Len(decoded["solver"].task)
             = Len(decoded["variator"].grid) * Len(decoded["variator"].grid)
        /\ SamePartition(decoded["variator"].grid,
                         RowsOf(decoded["solver"].task, Len(decoded["variator"].grid)))

====
